---------------------------- MODULE Spec2Model ----------------------------
(***************************************************************************)
(* Model of the analytical core of the lecture-notes scanner:              *)
(*   backend/services/alignment_service.py      (coverage estimation)      *)
(*   backend/services/concept_detector.py       (concept extraction, gaps) *)
(*   backend/services/misconception_detector.py (contradiction detection)  *)
(*   backend/main.py                            (request handlers)         *)
(*                                                                         *)
(* Text is a sequence of one-character strings.  Similarities and scores   *)
(* are integers in hundredths (0.3 is 30, 1.0 is 100).                     *)
(***************************************************************************)
EXTENDS Integers, Sequences, FiniteSets, TLC

(***************************************************************************)
(* Characters and the str methods the services use.                        *)
(***************************************************************************)
\* F(v), with v worked out once, before F uses it
Bind(v, F(_)) == CHOOSE r \in {F(x) : x \in {v}} : TRUE

UpperChars ==
  {"A","B","C","D","E","F","G","H","I","J","K","L","M",
   "N","O","P","Q","R","S","T","U","V","W","X","Y","Z"}

LowerChars ==
  {"a","b","c","d","e","f","g","h","i","j","k","l","m",
   "n","o","p","q","r","s","t","u","v","w","x","y","z"}

DigitChars == {"0","1","2","3","4","5","6","7","8","9"}

\* "\n" is a line feed, "\t" a tab: the whitespace str.strip, str.split and \s see.
SpaceChars == {" ", "\n", "\t", "\r", "\f"}

AlphaChars == UpperChars \cup LowerChars

\* \w of the re module: alphanumerics and the underscore.
WordChars == AlphaChars \cup DigitChars \cup {"_"}

LowerMap ==
  [A |-> "a", B |-> "b", C |-> "c", D |-> "d", E |-> "e", F |-> "f", G |-> "g",
   H |-> "h", I |-> "i", J |-> "j", K |-> "k", L |-> "l", M |-> "m", N |-> "n",
   O |-> "o", P |-> "p", Q |-> "q", R |-> "r", S |-> "s", T |-> "t", U |-> "u",
   V |-> "v", W |-> "w", X |-> "x", Y |-> "y", Z |-> "z"]

LowerChar(c) == IF c \in UpperChars THEN LowerMap[c] ELSE c

\* str.lower()
StrLower(s) == [i \in 1..Len(s) |-> LowerChar(s[i])]

\* s[a:b] of Python for 0 <= a, with b clipped to the length.
Slice(s, a, b) ==
  LET e == IF b > Len(s) THEN Len(s) ELSE b
  IN  IF a >= e THEN <<>> ELSE SubSeq(s, a + 1, e)

RECURSIVE LeadingSpaces(_, _)
LeadingSpaces(s, i) ==
  IF i < Len(s) /\ s[i + 1] \in SpaceChars THEN LeadingSpaces(s, i + 1) ELSE i

RECURSIVE TrailingSpaces(_, _)
TrailingSpaces(s, j) ==
  IF j > 0 /\ s[j] \in SpaceChars THEN TrailingSpaces(s, j - 1) ELSE j

\* str.strip()
StrStrip(s) == Slice(s, LeadingSpaces(s, 0), TrailingSpaces(s, Len(s)))

\* sub in s
StrContains(s, sub) ==
  \E i \in 0..(Len(s) - Len(sub)) : \A j \in 1..Len(sub) : s[i + j] = sub[j]

\* s.startswith(pre)
StrStartsWith(s, pre) ==
  Len(pre) <= Len(s) /\ \A j \in 1..Len(pre) : s[j] = pre[j]

RECURSIVE WordEnd(_, _)
WordEnd(s, i) ==
  IF i < Len(s) /\ s[i + 1] \notin SpaceChars THEN WordEnd(s, i + 1) ELSE i

\* str.split(): the maximal runs of non-whitespace, in order.
RECURSIVE SplitFrom(_, _)
SplitFrom(s, i) ==
  Bind(LeadingSpaces(s, i), LAMBDA a :
    IF a >= Len(s) THEN <<>>
    ELSE Bind(WordEnd(s, a), LAMBDA b : <<Slice(s, a, b)>> \o SplitFrom(s, b)))

StrSplit(s) == SplitFrom(s, 0)

RECURSIVE JoinFrom(_, _, _)
JoinFrom(sep, parts, n) ==
  IF n > Len(parts) THEN <<>>
  ELSE IF n = Len(parts) THEN parts[n]
  ELSE parts[n] \o sep \o JoinFrom(sep, parts, n + 1)

\* sep.join(parts)
StrJoin(sep, parts) == JoinFrom(sep, parts, 1)

SeqRange(q) == {q[i] : i \in 1..Len(q)}

(***************************************************************************)
(* The regular expressions of the re module, as the backtracking matcher   *)
(* runs them.  A pattern is a tree; Ends(re, s, i) is the sequence of      *)
(* positions at which a match of re starting at position i of s can end,   *)
(* in the order the matcher tries them (greedy first).  Positions count    *)
(* the characters consumed: 0..Len(s).                                     *)
(***************************************************************************)
ReSet(S) == [k |-> "set", set |-> S]

ReNot(S) == [k |-> "nset", set |-> S]

ReLit(str, ic) == [k |-> "lit", str |-> str, ic |-> ic]

ReCat(parts) == [k |-> "cat", parts |-> parts]

ReAlt(parts) == [k |-> "alt", parts |-> parts]

\* max = -1 is no upper limit
ReRep(body, min, max) == [k |-> "rep", body |-> body, min |-> min, max |-> max]

ReStar(body) == ReRep(body, 0, -1)

RePlus(body) == ReRep(body, 1, -1)

ReOpt(body) == ReRep(body, 0, 1)

ReWordBoundary == [k |-> "wb"]

ReStart == [k |-> "bol"]

IsWordAt(s, p) == p >= 1 /\ p <= Len(s) /\ s[p] \in WordChars

CharEq(c, d, ic) == IF ic THEN LowerChar(c) = LowerChar(d) ELSE c = d

IsCharNode(re) == re.k \in {"set", "nset"}

CharMatches(re, c) == IF re.k = "set" THEN c \in re.set ELSE c \notin re.set

\* how many characters from position i on match the class, up to lim (-1: no limit)
RECURSIVE RunLength(_, _, _, _)
RunLength(re, s, i, lim) ==
  IF lim # 0 /\ i < Len(s) /\ CharMatches(re, s[i + 1])
  THEN 1 + RunLength(re, s, i + 1, IF lim < 0 THEN lim ELSE lim - 1)
  ELSE 0

RECURSIVE Ends(_, _, _)
RECURSIVE CatEnds(_, _, _, _)
RECURSIVE CatSpread(_, _, _, _, _)
RECURSIVE AltEnds(_, _, _, _)
RECURSIVE RepEnds(_, _, _, _, _)
RECURSIVE RepSpread(_, _, _, _, _, _, _)

\* a repetition of a single character class: the longest run first, then shorter
RunEnds(re, min, max, s, i) ==
  Bind(RunLength(re, s, i, max), LAMBDA n :
    IF n < min THEN <<>> ELSE [j \in 1..(n - min + 1) |-> i + n - j + 1])

Ends(re, s, i) ==
  CASE re.k \in {"set", "nset"} ->
         IF i < Len(s) /\ CharMatches(re, s[i + 1]) THEN <<i + 1>> ELSE <<>>
    [] re.k = "lit" ->
         IF /\ i + Len(re.str) <= Len(s)
            /\ \A j \in 1..Len(re.str) : CharEq(s[i + j], re.str[j], re.ic)
         THEN <<i + Len(re.str)>> ELSE <<>>
    [] re.k = "wb" -> IF IsWordAt(s, i) # IsWordAt(s, i + 1) THEN <<i>> ELSE <<>>
    [] re.k = "bol" -> IF i = 0 THEN <<i>> ELSE <<>>
    [] re.k = "cat" -> CatEnds(re.parts, 1, s, i)
    [] re.k = "alt" -> AltEnds(re.parts, 1, s, i)
    [] re.k = "rep" ->
         IF IsCharNode(re.body) THEN RunEnds(re.body, re.min, re.max, s, i)
         ELSE RepEnds(re.body, re.min, re.max, s, i)

CatEnds(parts, n, s, i) ==
  IF n > Len(parts) THEN <<i>>
  ELSE Bind(Ends(parts[n], s, i), LAMBDA es : CatSpread(parts, n + 1, s, es, 1))

CatSpread(parts, n, s, es, j) ==
  IF j > Len(es) THEN <<>>
  ELSE CatEnds(parts, n, s, es[j]) \o CatSpread(parts, n, s, es, j + 1)

AltEnds(parts, n, s, i) ==
  IF n > Len(parts) THEN <<>>
  ELSE Ends(parts[n], s, i) \o AltEnds(parts, n + 1, s, i)

\* greedy: one more iteration is tried before stopping here; an iteration that
\* consumes nothing is not repeated
RepEnds(body, min, max, s, i) ==
  (IF max = 0 THEN <<>>
   ELSE Bind(Ends(body, s, i), LAMBDA es : RepSpread(body, min, max, s, i, es, 1)))
  \o (IF min <= 0 THEN <<i>> ELSE <<>>)

RepSpread(body, min, max, s, i, es, j) ==
  IF j > Len(es) THEN <<>>
  ELSE (IF es[j] = i THEN <<>>
        ELSE RepEnds(body, IF min > 0 THEN min - 1 ELSE 0,
                     IF max > 0 THEN max - 1 ELSE max, s, es[j]))
       \o RepSpread(body, min, max, s, i, es, j + 1)

\* The leftmost match starting in lo..hi: <<start, end>>, or <<>>.  The positions
\* are tried from left to right; the range is halved to keep the nesting shallow.
RECURSIVE ReSearchIn(_, _, _, _)
ReSearchIn(re, s, lo, hi) ==
  IF lo > hi THEN <<>>
  ELSE IF lo = hi
       THEN Bind(Ends(re, s, lo), LAMBDA es : IF es # <<>> THEN <<lo, es[1]>> ELSE <<>>)
       ELSE Bind(ReSearchIn(re, s, lo, (lo + hi) \div 2), LAMBDA m :
              IF m # <<>> THEN m ELSE ReSearchIn(re, s, (lo + hi) \div 2 + 1, hi))

\* The first match at or after position `from`: <<start, end>>, or <<>>.
ReSearchFrom(re, s, from) == ReSearchIn(re, s, from, Len(s))

\* re.search(re, s) is not None
ReSearch(re, s) == ReSearchFrom(re, s, 0) # <<>>

\* All non-overlapping matches, left to right: a sequence of <<start, end>>.
RECURSIVE ReFindSpans(_, _, _)
ReFindSpans(re, s, from) ==
  Bind(ReSearchFrom(re, s, from), LAMBDA m :
    IF m = <<>> THEN <<>>
    ELSE <<m>> \o ReFindSpans(re, s, IF m[2] > m[1] THEN m[2] ELSE m[2] + 1))

\* re.findall for a pattern without groups
ReFindAll(re, s) ==
  Bind(ReFindSpans(re, s, 0), LAMBDA ms :
    [n \in 1..Len(ms) |-> Slice(s, ms[n][1], ms[n][2])])

\* re.split for a pattern without groups that matches no empty string
ReSplit(re, s) ==
  Bind(ReFindSpans(re, s, 0), LAMBDA ms :
    [n \in 1..(Len(ms) + 1) |->
       Slice(s, IF n = 1 THEN 0 ELSE ms[n - 1][2],
                IF n > Len(ms) THEN Len(s) ELSE ms[n][1])])

\* re.sub(re, "", s) for a pattern anchored at the start: at most one match
ReSubStart(re, s) ==
  Bind(Ends(re, s, 0), LAMBDA es : IF es = <<>> THEN s ELSE Slice(s, es[1], Len(s)))

(***************************************************************************)
(* MisconceptionDetector (misconception_detector.py): the pure parts.      *)
(***************************************************************************)
\* r'[.!?]\s+'
SentenceBreakRe == ReCat(<<ReSet({".", "!", "?"}), RePlus(ReSet(SpaceChars))>>)

\* r'\d+\.?\d*'
NumberRe ==
  ReCat(<<RePlus(ReSet(DigitChars)), ReOpt(ReSet({"."})), ReStar(ReSet(DigitChars))>>)

\* the length a stripped fragment must exceed to count as a sentence
MinSentenceLen == 10

\* _split_into_sentences: [s.strip() for s in re.split(...) if len(s.strip()) > 10]
StripAll(parts) == [n \in 1..Len(parts) |-> StrStrip(parts[n])]

SplitIntoSentences(text) ==
  Bind(StripAll(ReSplit(SentenceBreakRe, text)), LAMBDA stripped :
    SelectSeq(stripped, LAMBDA f : Len(f) > MinSentenceLen))

\* contradiction_words: (neg_word, pos_word)
ContradictionWords ==
  <<<<<<"n","o","t">>, <<"i","s">>>>,
     <<<<"n","o">>, <<"y","e","s">>>>,
     <<<<"n","e","v","e","r">>, <<"a","l","w","a","y","s">>>>,
     <<<<"c","a","n","n","o","t">>, <<"c","a","n">>>>,
     <<<<"w","r","o","n","g">>, <<"c","o","r","r","e","c","t">>>>,
     <<<<"i","n","c","o","r","r","e","c","t">>, <<"c","o","r","r","e","c","t">>>>>>

\* self.contradiction_threshold = 0.3
ContradictionThreshold == 30

\* what one antonym pair adds to the score (0.3)
AntonymWeight == 30

\* what conflicting numbers add to the score (0.4)
NumberWeight == 40

\* the similarity the re-embedded pair must exceed (0.6)
SameConceptSimilarity == 60

\* the similarity a note sentence must exceed to be compared at all (0.5)
RelatedSimilarity == 50

\* the for loop over contradiction_words: 0.3 for every pair found in either direction
RECURSIVE AntonymScore(_, _, _)
AntonymScore(note_lower, lecture_lower, n) ==
  IF n > Len(ContradictionWords) THEN 0
  ELSE LET neg_word == ContradictionWords[n][1]
           pos_word == ContradictionWords[n][2]
           hit == \/ StrContains(note_lower, neg_word) /\ StrContains(lecture_lower, pos_word)
                  \/ StrContains(note_lower, pos_word) /\ StrContains(lecture_lower, neg_word)
       IN  (IF hit THEN AntonymWeight ELSE 0)
           + AntonymScore(note_lower, lecture_lower, n + 1)

\* the numbers branch: both sentences have numeric tokens, no token in common, and
\* the re-embedded sentences are more similar than 0.6
NumberScore(note_sentence, lecture_sentence, similarity) ==
  Bind(ReFindAll(NumberRe, note_sentence), LAMBDA note_numbers :
    Bind(ReFindAll(NumberRe, lecture_sentence), LAMBDA lecture_numbers :
      IF /\ note_numbers # <<>> /\ lecture_numbers # <<>>
         /\ SeqRange(note_numbers) \cap SeqRange(lecture_numbers) = {}
         /\ similarity > SameConceptSimilarity
      THEN NumberWeight ELSE 0))

Min(a, b) == IF a < b THEN a ELSE b

Max(a, b) == IF a > b THEN a ELSE b

\* _check_contradiction with the final min left out
CheckContradictionUnclamped(note_sentence, lecture_sentence, similarity) ==
  Bind(StrLower(note_sentence), LAMBDA note_lower :
    Bind(StrLower(lecture_sentence), LAMBDA lecture_lower :
      AntonymScore(note_lower, lecture_lower, 1)
        + NumberScore(note_sentence, lecture_sentence, similarity)))

\* _check_contradiction; `similarity` is what the embedding service answers for the
\* two sentences embedded on their own
CheckContradiction(note_sentence, lecture_sentence, similarity) ==
  Bind(StrLower(note_sentence), LAMBDA note_lower :
    Bind(StrLower(lecture_sentence), LAMBDA lecture_lower :
      Min(AntonymScore(note_lower, lecture_lower, 1)
            + NumberScore(note_sentence, lecture_sentence, similarity),
          100)))

\* _extract_correction with the slice left out
ExtractCorrectionWhole(lecture_sentence) == lecture_sentence

\* _extract_correction: lecture_sentence[:200]
ExtractCorrection(lecture_sentence) == Slice(lecture_sentence, 0, 200)


(***************************************************************************)
(* MisconceptionDetector.detect and _check_with_llm.                       *)
(* sim[i][j] is what embedding_service.similarity answers for note         *)
(* sentence i and lecture sentence j (1-based here); the embedding of a    *)
(* sentence depends on its text alone, so the pair re-embedded in          *)
(* _check_contradiction has the same similarity.                           *)
(* A reply of the chat capability is [kind |-> "error"] (create raised),   *)
(* [kind |-> "none"] (message.content is None) or                          *)
(* [kind |-> "content", content |-> text].                                 *)
(***************************************************************************)
\* lines 57-64: the most similar lecture sentence, from lecture index j on
RECURSIVE BestLectureLoop(_, _, _, _)
BestLectureLoop(row, j, max_similarity, best_lecture_idx) ==
  IF j >= Len(row)
  THEN [max_similarity |-> max_similarity, best_lecture_idx |-> best_lecture_idx]
  ELSE IF row[j + 1] > max_similarity
       THEN BestLectureLoop(row, j + 1, row[j + 1], j)
       ELSE BestLectureLoop(row, j + 1, max_similarity, best_lecture_idx)

\* the same loop with the later of two equally similar lecture sentences kept
RECURSIVE BestLectureLoopLatest(_, _, _, _)
BestLectureLoopLatest(row, j, max_similarity, best_lecture_idx) ==
  IF j >= Len(row)
  THEN [max_similarity |-> max_similarity, best_lecture_idx |-> best_lecture_idx]
  ELSE IF row[j + 1] >= max_similarity
       THEN BestLectureLoopLatest(row, j + 1, row[j + 1], j)
       ELSE BestLectureLoopLatest(row, j + 1, max_similarity, best_lecture_idx)

BestLectureLatest(row) == BestLectureLoopLatest(row, 0, 0, -1)

\* max_similarity = 0.0; best_lecture_idx = -1; then the loop
BestLecture(row) == BestLectureLoop(row, 0, 0, -1)

\* the entry with the position counted from 1
MisconceptionOneBased(text, suggestion, position) ==
  [text |-> text, suggestion |-> suggestion, position |-> position + 1]

\* the dictionary detect appends (lines 76-80 and 93-97)
Misconception(text, suggestion, position) ==
  [text |-> text, suggestion |-> suggestion, position |-> position]

\* lines 83-97 and 189-192: the heuristic verdict, <<is_misconception, correction>>
HeuristicVerdict(note_sentence, lecture_sentence, similarity) ==
  IF CheckContradiction(note_sentence, lecture_sentence, similarity) > ContradictionThreshold
  THEN <<TRUE, ExtractCorrection(lecture_sentence)>>
  ELSE <<FALSE, <<>>>>

\* result.split("|", 1)[1], for a result that holds a "|"
RECURSIVE AfterFirstBar(_, _)
AfterFirstBar(s, i) ==
  IF i >= Len(s) THEN <<>>
  ELSE IF s[i + 1] = "|" THEN Slice(s, i + 1, Len(s)) ELSE AfterFirstBar(s, i + 1)

\* how much of the lecture sentence stands in for a correction the reply left out
LlmCorrectionLen == 150

\* _check_with_llm once the capability has answered `reply`
CheckWithLlm(note_sentence, lecture_sentence, reply, similarity) ==
  IF reply.kind # "content"
  THEN HeuristicVerdict(note_sentence, lecture_sentence, similarity)
  ELSE Bind(StrStrip(reply.content), LAMBDA res :
         IF StrStartsWith(res, <<"Y","E","S">>)
         THEN <<TRUE, IF "|" \in SeqRange(res)
                      THEN Bind(AfterFirstBar(res, 0), LAMBDA part : StrStrip(part))
                      ELSE Slice(lecture_sentence, 0, LlmCorrectionLen)>>
         ELSE <<FALSE, <<>>>>)

\* the for loop of detect from note index i on (0-based), with the list built so
\* far: it runs to the return, or stops where _check_with_llm waits for the reply
RECURSIVE DetectLoop(_, _, _, _, _, _)
DetectLoop(llm, note_sentences, lecture_sentences, sim, i, misconceptions) ==
  IF i >= Len(note_sentences)
  THEN [at |-> "return", misconceptions |-> misconceptions]
  ELSE Bind(BestLecture(sim[i + 1]), LAMBDA best :
         IF best.max_similarity > RelatedSimilarity /\ best.best_lecture_idx >= 0
         THEN IF llm
              THEN [at |-> "check_with_llm", i |-> i,
                    best_lecture_idx |-> best.best_lecture_idx,
                    note_sentences |-> note_sentences,
                    lecture_sentences |-> lecture_sentences,
                    misconceptions |-> misconceptions]
              ELSE Bind(HeuristicVerdict(note_sentences[i + 1],
                                         lecture_sentences[best.best_lecture_idx + 1],
                                         sim[i + 1][best.best_lecture_idx + 1]),
                        LAMBDA verdict :
                          Bind(IF verdict[1]
                               THEN Append(misconceptions,
                                           Misconception(note_sentences[i + 1], verdict[2], i))
                               ELSE misconceptions,
                               LAMBDA found :
                                 DetectLoop(llm, note_sentences, lecture_sentences, sim,
                                            i + 1, found)))
         ELSE DetectLoop(llm, note_sentences, lecture_sentences, sim, i + 1, misconceptions))

\* ' '.join([slide['text'] for slide in slide_data])
LectureText(slide_data) == StrJoin(<<" ">>, [n \in 1..Len(slide_data) |-> slide_data[n].text])

NoteSentences(notes_text) == SplitIntoSentences(notes_text)

LectureSentences(slide_data) ==
  Bind(LectureText(slide_data), LAMBDA lecture_text : SplitIntoSentences(lecture_text))

\* detect up to its first wait, or to its return
DetectStart(llm, notes_text, slide_data, sim) ==
  Bind(NoteSentences(notes_text), LAMBDA note_sentences :
    Bind(LectureSentences(slide_data), LAMBDA lecture_sentences :
      DetectLoop(llm, note_sentences, lecture_sentences, sim, 0, <<>>)))

\* detect from the reply to the waiting _check_with_llm on; `waiting` holds the
\* locals of detect and `llm` is self.use_llm as the next iterations read it
DetectResumeWith(llm, sim, waiting, reply) ==
  Bind(CheckWithLlm(waiting.note_sentences[waiting.i + 1],
                    waiting.lecture_sentences[waiting.best_lecture_idx + 1], reply,
                    sim[waiting.i + 1][waiting.best_lecture_idx + 1]),
       LAMBDA verdict :
         Bind(IF verdict[1]
              THEN Append(waiting.misconceptions,
                          Misconception(waiting.note_sentences[waiting.i + 1],
                                        verdict[2], waiting.i))
              ELSE waiting.misconceptions,
              LAMBDA found :
                DetectLoop(llm, waiting.note_sentences, waiting.lecture_sentences, sim,
                           waiting.i + 1, found)))

\* the same for one request at a time: the detector that waits has use_llm on
DetectResume(sim, waiting, reply) == DetectResumeWith(TRUE, sim, waiting, reply)

(***************************************************************************)
(* ConceptDetector._extract_from_text_fallback (concept_detector.py).      *)
(***************************************************************************)
\* A pattern given as the sequence of its top-level parts: the positions at which
\* the parts of the first match starting at i end, <<i, e1, ..., en>>, or <<>>.
\* The matcher tries the ends of a part in order and keeps the first that lets
\* the rest match.
RECURSIVE FirstPath(_, _, _, _)
RECURSIVE TryEnds(_, _, _, _, _, _)
FirstPath(parts, n, s, i) ==
  IF n > Len(parts) THEN <<i>>
  ELSE Bind(Ends(parts[n], s, i), LAMBDA es : TryEnds(parts, n, s, i, es, 1))

TryEnds(parts, n, s, i, es, j) ==
  IF j > Len(es) THEN <<>>
  ELSE Bind(FirstPath(parts, n + 1, s, es[j]), LAMBDA rest :
         IF rest # <<>> THEN <<i>> \o rest ELSE TryEnds(parts, n, s, i, es, j + 1))

\* the leftmost match starting in lo..hi, as its path, or <<>>
RECURSIVE SearchPathIn(_, _, _, _)
SearchPathIn(parts, s, lo, hi) ==
  IF lo > hi THEN <<>>
  ELSE IF lo = hi THEN FirstPath(parts, 1, s, lo)
       ELSE Bind(SearchPathIn(parts, s, lo, (lo + hi) \div 2), LAMBDA path :
              IF path # <<>> THEN path
              ELSE SearchPathIn(parts, s, (lo + hi) \div 2 + 1, hi))

\* the first match at or after `from`, as its path, or <<>>
SearchPath(parts, s, from) == SearchPathIn(parts, s, from, Len(s))

\* the paths of all non-overlapping matches, left to right
RECURSIVE FindPaths(_, _, _)
FindPaths(parts, s, from) ==
  Bind(SearchPath(parts, s, from), LAMBDA path :
    IF path = <<>> THEN <<>>
    ELSE <<path>> \o FindPaths(parts, s,
                               IF path[Len(path)] > path[1] THEN path[Len(path)]
                               ELSE path[Len(path)] + 1))

\* re.findall for a pattern with one group, its part number g: the group of each match
ReFindGroup(parts, g, s) ==
  Bind(FindPaths(parts, s, 0), LAMBDA paths :
    [n \in 1..Len(paths) |-> Slice(s, paths[n][g], paths[n][g + 1])])

ReSpaces == RePlus(ReSet(SpaceChars))

ReDigits == RePlus(ReSet(DigitChars))

ReWord == RePlus(ReSet(WordChars))

\* r"(\b[\w\s]{0,40}(?:ranges?|range|from|between|within)\s+\d+(?:\s*[-–]\s*\d+)?(?:\s+\w+)*)",
\* re.IGNORECASE; the en dash is the character ENDASH
NumberFactRe ==
  ReCat(<<ReWordBoundary,
          ReRep(ReSet(WordChars \cup SpaceChars), 0, 40),
          ReAlt(<<ReCat(<<ReLit(<<"r","a","n","g","e">>, TRUE), ReOpt(ReLit(<<"s">>, TRUE))>>),
                  ReLit(<<"r","a","n","g","e">>, TRUE),
                  ReLit(<<"f","r","o","m">>, TRUE),
                  ReLit(<<"b","e","t","w","e","e","n">>, TRUE),
                  ReLit(<<"w","i","t","h","i","n">>, TRUE)>>),
          ReSpaces,
          ReDigits,
          ReOpt(ReCat(<<ReStar(ReSet(SpaceChars)), ReSet({"-", "ENDASH"}),
                        ReStar(ReSet(SpaceChars)), ReDigits>>)),
          ReStar(ReCat(<<ReSpaces, ReWord>>))>>)

\* r"data\s+from\s+(\d+\s+\w+(?:\s+\w+){0,6})", re.IGNORECASE: the group is part 2
DataSourceParts ==
  <<ReCat(<<ReLit(<<"d","a","t","a">>, TRUE), ReSpaces, ReLit(<<"f","r","o","m">>, TRUE), ReSpaces>>),
    ReCat(<<ReDigits, ReSpaces, ReWord, ReRep(ReCat(<<ReSpaces, ReWord>>), 0, 6)>>)>>

\* r"predicts?\s+([^,\.]+(?:\([^)]+\))?)", re.IGNORECASE: the group is part 2
PredictionParts ==
  <<ReCat(<<ReLit(<<"p","r","e","d","i","c","t">>, TRUE), ReOpt(ReLit(<<"s">>, TRUE)), ReSpaces>>),
    ReCat(<<RePlus(ReNot({",", "."})),
            ReOpt(ReCat(<<ReSet({"("}), RePlus(ReNot({")"})), ReSet({")"})>>))>>)>>

\* r"\b([A-Z][A-Z]+)\s+stands?\s+for\s+([^,\.]+)": the groups are parts 2 and 4
DefinitionParts ==
  <<ReWordBoundary,
    ReCat(<<ReSet(UpperChars), RePlus(ReSet(UpperChars))>>),
    ReCat(<<ReSpaces, ReLit(<<"s","t","a","n","d">>, FALSE), ReOpt(ReLit(<<"s">>, FALSE)), ReSpaces,
            ReLit(<<"f","o","r">>, FALSE), ReSpaces>>),
    RePlus(ReNot({",", "."}))>>

\* r"\b(?:uses?|includes?|provides?|offers?|relies\s+on)\s+([^,\.]+)", re.IGNORECASE:
\* the group is part 2
CapabilityParts ==
  <<ReCat(<<ReWordBoundary,
            ReAlt(<<ReCat(<<ReLit(<<"u","s","e">>, TRUE), ReOpt(ReLit(<<"s">>, TRUE))>>),
                    ReCat(<<ReLit(<<"i","n","c","l","u","d","e">>, TRUE), ReOpt(ReLit(<<"s">>, TRUE))>>),
                    ReCat(<<ReLit(<<"p","r","o","v","i","d","e">>, TRUE), ReOpt(ReLit(<<"s">>, TRUE))>>),
                    ReCat(<<ReLit(<<"o","f","f","e","r">>, TRUE), ReOpt(ReLit(<<"s">>, TRUE))>>),
                    ReCat(<<ReLit(<<"r","e","l","i","e","s">>, TRUE), ReSpaces, ReLit(<<"o","n">>, TRUE)>>)>>),
            ReSpaces>>),
    RePlus(ReNot({",", "."}))>>

\* the length under which a sentence is skipped
MinFactSentenceLen == 12

\* how many capability matches of a sentence are looked at
MaxCapabilities == 3

\* the length a capability must exceed
MinCapabilityLen == 5

StripSet(q) == {StrStrip(q[n]) : n \in 1..Len(q)}

\* lines 123-128
NumberFacts(sentence) == StripSet(ReFindAll(NumberFactRe, sentence))

\* lines 131-134: f"data from {src}".strip()
DataSources(sentence) ==
  Bind(ReFindGroup(DataSourceParts, 2, sentence), LAMBDA sources :
    {StrStrip(<<"d","a","t","a"," ","f","r","o","m"," ">> \o sources[n]) : n \in 1..Len(sources)})

\* lines 137-140
Predictions(sentence) == StripSet(ReFindGroup(PredictionParts, 2, sentence))

\* lines 143-149: f"{abbr} stands for {definition.strip()}"
Definitions(sentence) ==
  Bind(FindPaths(DefinitionParts, sentence, 0), LAMBDA paths :
    {Slice(sentence, paths[n][2], paths[n][3]) \o <<" ","s","t","a","n","d","s"," ","f","o","r"," ">>
       \o StrStrip(Slice(sentence, paths[n][4], paths[n][5])) : n \in 1..Len(paths)})

StartsWithArticle(cap) ==
  Bind(StrLower(cap), LAMBDA lowered :
    \/ StrStartsWith(lowered, <<"a", " ">>)
    \/ StrStartsWith(lowered, <<"a", "n", " ">>)
    \/ StrStartsWith(lowered, <<"t", "h", "e", " ">>))

\* lines 152-160: the first three matches, stripped, kept when longer than 5
\* characters and not starting with an article
Capabilities(sentence) ==
  Bind(ReFindGroup(CapabilityParts, 2, sentence), LAMBDA capabilities :
    {cap \in StripSet(Slice(capabilities, 0, MaxCapabilities)) :
       Len(cap) > MinCapabilityLen /\ ~StartsWithArticle(cap)})

\* the body of the for loop over the sentences
SentenceConcepts(sentence) ==
  IF Len(sentence) < MinFactSentenceLen THEN {}
  ELSE NumberFacts(sentence) \cup DataSources(sentence) \cup Predictions(sentence)
         \cup Definitions(sentence) \cup Capabilities(sentence)

\* _extract_from_text_fallback
ExtractFromTextFallback(text) ==
  Bind(StripAll(ReSplit(SentenceBreakRe, text)), LAMBDA sentences :
    UNION {SentenceConcepts(sentences[n]) : n \in 1..Len(sentences)})


(***************************************************************************)
(* ConceptDetector._filter_concepts (concept_detector.py).                 *)
(***************************************************************************)
\* r"\b<word>\b"
WholeWordRe(word) == ReCat(<<ReWordBoundary, ReLit(word, FALSE), ReWordBoundary>>)

\* noise_patterns; the three bullet glyphs are the characters BULLET, SQBULLET, OBULLET
NoisePatterns ==
  <<ReSet({"BULLET", "SQBULLET", "OBULLET"}),
    ReLit(<<"-","-">>, FALSE),
    ReLit(<<"_","_","_">>, FALSE),
    WholeWordRe(<<"s","l","i","d","e">>),
    WholeWordRe(<<"p","a","g","e">>),
    WholeWordRe(<<"f","i","g","u","r","e">>),
    WholeWordRe(<<"t","a","b","l","e">>),
    WholeWordRe(<<"u","n","i","v","e","r","s","i","t","y">>),
    WholeWordRe(<<"d","e","p","a","r","t","m","e","n","t">>)>>

\* stop_words
StopWords ==
  {<<"t","h","e">>,
   <<"a","n","d">>,
   <<"o","r">>,
   <<"b","u","t">>,
   <<"i","n">>,
   <<"o","n">>,
   <<"a","t">>,
   <<"t","o">>,
   <<"f","o","r">>,
   <<"o","f">>,
   <<"w","i","t","h">>,
   <<"b","y">>,
   <<"a">>,
   <<"a","n">>,
   <<"i","s">>,
   <<"a","r","e">>,
   <<"w","a","s">>,
   <<"w","e","r","e">>}

\* r"^[\d\.\)\-]+\s*"
LeadingNumberingRe ==
  ReCat(<<ReStart, RePlus(ReSet(DigitChars \cup {".", ")", "-"})), ReStar(ReSet(SpaceChars))>>)

\* r"\d"
DigitRe == ReSet(DigitChars)

\* r"\b[A-Z][a-z]+\b"
CapitalizedWordRe ==
  ReCat(<<ReWordBoundary, ReSet(UpperChars), RePlus(ReSet(LowerChars)), ReWordBoundary>>)

\* r"[A-Za-z]{3,}"
ThreeLettersRe == ReRep(ReSet(AlphaChars), 3, -1)

\* the length under which a concept needs a digit or a capitalized word
ShortConceptLen == 6

\* the word count from which the stop-word ratio no longer matters
StopWordMaxWords == 5

\* the stop-word ratio above which a short concept is dropped, in hundredths (0.65)
StopWordRatio == 65

\* the two strips and the re.sub: what a concept that survives is stored as
CleanConcept(concept) ==
  Bind(StrStrip(concept), LAMBDA stripped : ReSubStart(LeadingNumberingRe, stripped))

StopWordCount(words) == Cardinality({n \in 1..Len(words) : words[n] \in StopWords})

\* the checks of the for loop on the cleaned concept and its lowered form
KeepsClean(concept_clean, lowered, words) ==
  /\ Len(concept_clean) < ShortConceptLen =>
       ReSearch(DigitRe, concept_clean) \/ ReSearch(CapitalizedWordRe, concept_clean)
  /\ \A n \in 1..Len(NoisePatterns) : ~ReSearch(NoisePatterns[n], lowered)
  /\ words # <<>>
  /\ ~(/\ 100 * StopWordCount(words) > StopWordRatio * Len(words)
       /\ Len(words) < StopWordMaxWords)
  /\ ReSearch(ThreeLettersRe, concept_clean)

\* the body of the for loop: whether the concept reaches filtered.add
KeepsConcept(concept) ==
  /\ concept # <<>>
  /\ StrStrip(concept) # <<>>
  /\ Bind(CleanConcept(concept), LAMBDA concept_clean :
       Bind(StrLower(concept_clean), LAMBDA lowered :
         Bind(StrSplit(lowered), LAMBDA words :
           KeepsClean(concept_clean, lowered, words))))

\* _filter_concepts
FilterConcepts(concepts) == {CleanConcept(c) : c \in {c \in concepts : KeepsConcept(c)}}


(***************************************************************************)
(* ConceptDetector.find_missing_concepts and select_priority_concepts      *)
(* (concept_detector.py).  list(a_set) hands the members over in an order  *)
(* the program does not choose: missing_list, notes_list and the iteration *)
(* of sorted() over a set are inputs of the call.  sim[<<m, n>>] is what   *)
(* embedding_service.similarity answers for the embeddings of the missing  *)
(* concept m and the note concept n.                                       *)
(***************************************************************************)
\* how many missing concepts are returned at most
MissingLimit == 10

\* the similarity under which a concept counts as missing (0.75)
ParaphraseSimilarity == 75

\* the difference with the subtraction left out
MissingDifferenceKeepsAll(lecture_concepts, notes_concepts) == lecture_concepts

\* lecture_concepts - notes_concepts
MissingDifference(lecture_concepts, notes_concepts) == lecture_concepts \ notes_concepts

\* lines 278-282: max_similarity = 0.0, then the loop over notes_embeddings from j on
RECURSIVE MaxSimilarityLoop(_, _, _, _, _)
MaxSimilarityLoop(sim, missing_concept, notes_list, j, max_similarity) ==
  IF j >= Len(notes_list) THEN max_similarity
  ELSE MaxSimilarityLoop(sim, missing_concept, notes_list, j + 1,
                         Max(max_similarity, sim[<<missing_concept, notes_list[j + 1]>>]))

\* the test of line 284 with <= for <
TrulyMissingAtThreshold(max_similarity) == max_similarity <= ParaphraseSimilarity

\* line 284: the candidate is truly missing
TrulyMissing(max_similarity) == max_similarity < ParaphraseSimilarity

\* lines 276-285: the loop over missing_list from i on, with the list built so far
RECURSIVE TrulyMissingLoop(_, _, _, _, _)
TrulyMissingLoop(sim, missing_list, notes_list, i, truly_missing) ==
  IF i >= Len(missing_list) THEN truly_missing
  ELSE TrulyMissingLoop(sim, missing_list, notes_list, i + 1,
         IF TrulyMissing(MaxSimilarityLoop(sim, missing_list[i + 1], notes_list, 0, 0))
         THEN Append(truly_missing, missing_list[i + 1]) ELSE truly_missing)

\* the slice with one entry more
FirstMissingAndOne(list) == Slice(list, 0, MissingLimit + 1)

\* missing_list[:10], truly_missing[:10]
FirstMissing(list) == Slice(list, 0, MissingLimit)

\* find_missing_concepts, given the two lists list() made and the similarities:
\* the list returned, and whether embed_batch was called
FindMissingConcepts(lecture_concepts, notes_concepts, missing_list, notes_list, sim) ==
  IF MissingDifference(FilterConcepts(lecture_concepts), FilterConcepts(notes_concepts)) = {}
  THEN [value |-> <<>>, embedded |-> FALSE]
  ELSE IF notes_list = <<>>
       THEN [value |-> FirstMissing(missing_list), embedded |-> FALSE]
       ELSE [value |-> FirstMissing(TrulyMissingLoop(sim, missing_list, notes_list, 0, <<>>)),
             embedded |-> TRUE]

\* the words of line 300
PriorityWords ==
  {<<"p","r","e","d","i","c","t">>,
   <<"r","i","s","k">>,
   <<"s","c","o","r","e">>,
   <<"u","s","e","s">>,
   <<"b","a","s","e","d">>,
   <<"m","o","d","e","l">>}

\* what a digit, four words and a priority word add to the score
DigitPoints == 3

WordCountPoints == 2

PriorityWordPoints == 1

\* the number of words from which a concept earns WordCountPoints
ManyWords == 4

\* the score with the points of a digit and of a priority word exchanged
PriorityScoreSwapped(concept) ==
  (IF ReSearch(DigitRe, concept) THEN PriorityWordPoints ELSE 0)
  + (IF Len(StrSplit(concept)) >= ManyWords THEN WordCountPoints ELSE 0)
  + (IF \E word \in PriorityWords : StrContains(StrLower(concept), word)
     THEN DigitPoints ELSE 0)

\* lines 294-302: score(concept)
PriorityScore(concept) ==
  (IF ReSearch(DigitRe, concept) THEN DigitPoints ELSE 0)
  + (IF Len(StrSplit(concept)) >= ManyWords THEN WordCountPoints ELSE 0)
  + (IF \E word \in PriorityWords : StrContains(StrLower(concept), word)
     THEN PriorityWordPoints ELSE 0)

\* key(a) > key(b) for the key (score(c), len(c))
KeyGreater(a, b) ==
  \/ PriorityScore(a) > PriorityScore(b)
  \/ PriorityScore(a) = PriorityScore(b) /\ Len(a) > Len(b)

\* sorted(..., reverse=True) is stable: c goes behind every entry whose key is not
\* smaller than its own
RECURSIVE InsertRanked(_, _, _)
InsertRanked(ranked, c, n) ==
  IF n > Len(ranked) THEN Append(ranked, c)
  ELSE IF KeyGreater(c, ranked[n])
       THEN SubSeq(ranked, 1, n - 1) \o <<c>> \o SubSeq(ranked, n, Len(ranked))
       ELSE InsertRanked(ranked, c, n + 1)

\* sorted(concepts, key=..., reverse=True) for the iteration order `listed`
RECURSIVE SortRanked(_, _, _)
SortRanked(listed, i, ranked) ==
  IF i >= Len(listed) THEN ranked
  ELSE Bind(InsertRanked(ranked, listed[i + 1], 1), LAMBDA next :
         SortRanked(listed, i + 1, next))

\* select_priority_concepts for a limit >= 0, given the order the set is iterated in
SelectPriorityConcepts(concepts, listed, limit) ==
  IF concepts = {} THEN <<>>
  ELSE Slice(SortRanked(listed, 0, <<>>), 0, limit)


(***************************************************************************)
(* json.loads, as far as the replies need it: strings with the one-letter  *)
(* escapes (no \u escape), numbers, the literals, arrays and objects.  A   *)
(* parse is [ok |-> TRUE, v |-> value, end |-> position] or [ok |-> FALSE];*)
(* a value is [t |-> "string", s |-> text], [t |-> "number"],              *)
(* [t |-> "literal"], [t |-> "list", items |-> values] or [t |-> "dict"].  *)
(***************************************************************************)
JsonSpace == {" ", "\t", "\n", "\r"}

\* the characters a string must escape: the control characters of the alphabet
JsonControl == {"\t", "\n", "\r", "\f"}

\* what follows the backslash, and the character it stands for
JsonEscapes == {<<"\"", "\"">>, <<"\\", "\\">>, <<"/", "/">>, <<"n", "\n">>,
                <<"t", "\t">>, <<"r", "\r">>, <<"f", "\f">>, <<"b", "BACKSPACE">>}

JsonFail == [ok |-> FALSE]

JsonOk(v, end) == [ok |-> TRUE, v |-> v, end |-> end]

JsonSkip(s, i) == i + RunLength(ReSet(JsonSpace), s, i, -1)

JsonCharAt(s, i, c) == i < Len(s) /\ s[i + 1] = c

\* -?(0|[1-9]\d*)(\.\d+)?([eE][-+]?\d+)?
JsonNumberRe ==
  ReCat(<<ReOpt(ReSet({"-"})),
          ReAlt(<<ReSet({"0"}), ReCat(<<ReSet(DigitChars \ {"0"}), ReStar(ReSet(DigitChars))>>)>>),
          ReOpt(ReCat(<<ReSet({"."}), ReDigits>>)),
          ReOpt(ReCat(<<ReSet({"e", "E"}), ReOpt(ReSet({"-", "+"})), ReDigits>>))>>)

JsonLiteralRe ==
  ReAlt(<<ReLit(<<"n","u","l","l">>, FALSE), ReLit(<<"t","r","u","e">>, FALSE), ReLit(<<"f","a","l","s","e">>, FALSE), ReLit(<<"N","a","N">>, FALSE), ReLit(<<"I","n","f","i","n","i","t","y">>, FALSE), ReLit(<<"-","I","n","f","i","n","i","t","y">>, FALSE)>>)

\* the rest of a string whose opening quote has been read
RECURSIVE JsonString(_, _, _)
JsonString(s, i, acc) ==
  IF i >= Len(s) THEN JsonFail
  ELSE IF s[i + 1] = "\"" THEN JsonOk([t |-> "string", s |-> acc], i + 1)
  ELSE IF s[i + 1] = "\\"
       THEN IF i + 1 < Len(s) /\ \E e \in JsonEscapes : e[1] = s[i + 2]
            THEN JsonString(s, i + 2,
                            Append(acc, (CHOOSE e \in JsonEscapes : e[1] = s[i + 2])[2]))
            ELSE JsonFail
  ELSE IF s[i + 1] \in JsonControl THEN JsonFail
  ELSE JsonString(s, i + 1, Append(acc, s[i + 1]))

RECURSIVE JsonValue(_, _)
RECURSIVE JsonItems(_, _, _)
RECURSIVE JsonMembers(_, _)

\* the value that starts at position i
JsonValue(s, i) ==
  IF i >= Len(s) THEN JsonFail
  ELSE IF s[i + 1] = "\"" THEN JsonString(s, i + 1, <<>>)
  ELSE IF s[i + 1] = "["
       THEN Bind(JsonSkip(s, i + 1), LAMBDA j :
              IF JsonCharAt(s, j, "]") THEN JsonOk([t |-> "list", items |-> <<>>], j + 1)
              ELSE JsonItems(s, j, <<>>))
  ELSE IF s[i + 1] = "{"
       THEN Bind(JsonSkip(s, i + 1), LAMBDA j :
              IF JsonCharAt(s, j, "}") THEN JsonOk([t |-> "dict"], j + 1)
              ELSE JsonMembers(s, j))
  ELSE Bind(Ends(JsonLiteralRe, s, i), LAMBDA ls :
         IF ls # <<>> THEN JsonOk([t |-> "literal"], ls[1])
         ELSE Bind(Ends(JsonNumberRe, s, i), LAMBDA ns :
                IF ns # <<>> THEN JsonOk([t |-> "number"], ns[1]) ELSE JsonFail))

\* the items of an array from position i on, after the items in acc
JsonItems(s, i, acc) ==
  Bind(JsonValue(s, i), LAMBDA r :
    IF ~r.ok THEN JsonFail
    ELSE Bind(JsonSkip(s, r.end), LAMBDA j :
           IF JsonCharAt(s, j, "]")
           THEN JsonOk([t |-> "list", items |-> Append(acc, r.v)], j + 1)
           ELSE IF JsonCharAt(s, j, ",")
                THEN Bind(JsonSkip(s, j + 1), LAMBDA k :
                       JsonItems(s, k, Append(acc, r.v)))
                ELSE JsonFail))

\* the members of an object from position i on
JsonMembers(s, i) ==
  IF ~JsonCharAt(s, i, "\"") THEN JsonFail
  ELSE Bind(JsonString(s, i + 1, <<>>), LAMBDA key :
         IF ~key.ok THEN JsonFail
         ELSE Bind(JsonSkip(s, key.end), LAMBDA c :
                IF ~JsonCharAt(s, c, ":") THEN JsonFail
                ELSE Bind(JsonValue(s, JsonSkip(s, c + 1)), LAMBDA r :
                       IF ~r.ok THEN JsonFail
                       ELSE Bind(JsonSkip(s, r.end), LAMBDA j :
                              IF JsonCharAt(s, j, "}") THEN JsonOk([t |-> "dict"], j + 1)
                              ELSE IF JsonCharAt(s, j, ",")
                                   THEN Bind(JsonSkip(s, j + 1), LAMBDA k :
                                          JsonMembers(s, k))
                                   ELSE JsonFail))))

\* json.loads(s): one value, with white space around it and nothing else
JsonLoads(s) ==
  Bind(JsonValue(s, JsonSkip(s, 0)), LAMBDA r :
    IF r.ok /\ JsonSkip(s, r.end) = Len(s) THEN r ELSE JsonFail)

(***************************************************************************)
(* ConceptDetector._extract_with_llm, extract_concepts_from_text and       *)
(* extract_concepts (concept_detector.py).                                 *)
(***************************************************************************)
\* re.sub(re, "", s) for a pattern that matches no empty string
ReSubAll(re, s) == StrJoin(<<>>, ReSplit(re, s))

\* r"```json\s*"; the back quote is the character BACKTICK
JsonFenceRe == ReCat(<<ReLit(<<"BACKTICK","BACKTICK","BACKTICK","j","s","o","n">>, FALSE), ReStar(ReSet(SpaceChars))>>)

\* r"```\s*"
FenceRe == ReCat(<<ReLit(<<"BACKTICK","BACKTICK","BACKTICK">>, FALSE), ReStar(ReSet(SpaceChars))>>)

\* lines 93-97: the reply without its optional Markdown wrappers
Unwrap(content) ==
  Bind(StrStrip(content), LAMBDA stripped :
    Bind(ReSubAll(JsonFenceRe, stripped), LAMBDA unfenced :
      Bind(ReSubAll(FenceRe, unfenced), LAMBDA bare : StrStrip(bare))))

\* set(filter(lambda x: isinstance(x, str), concepts))
StringItems(items) == {items[n].s : n \in {m \in 1..Len(items) : items[m].t = "string"}}

\* _extract_with_llm once the capability has answered `reply`
ExtractWithLlm(text, reply) ==
  IF reply.kind # "content" THEN ExtractFromTextFallback(text)
  ELSE Bind(JsonLoads(Unwrap(reply.content)), LAMBDA concepts :
         IF ~concepts.ok THEN ExtractFromTextFallback(text)
         ELSE IF concepts.v.t = "list" THEN StringItems(concepts.v.items)
         ELSE {})

\* the test with the strip left out
IsBlankEmptyOnly(text) == text = <<>>

\* not text.strip()
IsBlank(text) == StrStrip(text) = <<>>

\* extract_concepts_from_text up to the return, or to where _extract_with_llm waits
ExtractTextStart(llm, text) ==
  IF IsBlank(text) THEN [at |-> "return", concepts |-> {}]
  ELSE IF llm THEN [at |-> "extract_with_llm", in |-> "extract_concepts_from_text",
                    text |-> text]
  ELSE [at |-> "return", concepts |-> FilterConcepts(ExtractFromTextFallback(text))]

\* how many slides make one chunk
ChunkSize == 2

\* "\n\n".join(slide["text"] for slide in chunk if slide.get("text"))
ChunkText(slide_data, i) ==
  Bind(Slice(slide_data, i, i + ChunkSize), LAMBDA chunk :
    StrJoin(<<"\n", "\n">>,
            [n \in 1..Len(SelectSeq(chunk, LAMBDA slide : slide.text # <<>>)) |->
               SelectSeq(chunk, LAMBDA slide : slide.text # <<>>)[n].text]))

\* the for loop of extract_concepts from slide index i on, with the concepts found
\* so far: it runs to the return, or stops where _extract_with_llm waits
RECURSIVE ExtractLoop(_, _, _, _)
ExtractLoop(llm, slide_data, i, all_concepts) ==
  IF i >= Len(slide_data)
  THEN [at |-> "return", concepts |-> FilterConcepts(all_concepts)]
  ELSE Bind(ChunkText(slide_data, i), LAMBDA chunk_text :
         IF IsBlank(chunk_text)
         THEN ExtractLoop(llm, slide_data, i + ChunkSize, all_concepts)
         ELSE IF llm
              THEN [at |-> "extract_with_llm", in |-> "extract_concepts",
                    text |-> chunk_text, i |-> i, all_concepts |-> all_concepts]
              ELSE Bind(ExtractFromTextFallback(chunk_text), LAMBDA concepts :
                     ExtractLoop(llm, slide_data, i + ChunkSize,
                                 all_concepts \cup concepts)))

\* the handler that waits goes on with what _extract_with_llm returned
ExtractResume(llm, slide_data, waiting, concepts) ==
  IF waiting.in = "extract_concepts_from_text"
  THEN [at |-> "return", concepts |-> FilterConcepts(concepts)]
  ELSE ExtractLoop(llm, slide_data, waiting.i + ChunkSize,
                   waiting.all_concepts \cup concepts)


(***************************************************************************)
(* AlignmentService.find_covered_slides (alignment_service.py).            *)
(* `similarities` is the list the first loop builds: what                  *)
(* embedding_service.similarity answers for the notes and each slide.      *)
(***************************************************************************)
\* self.similarity_threshold = 0.3
SimilarityThreshold == 30

\* sum(similarities[:i+1]) for the 0-based i
RECURSIVE PrefixSum(_, _)
PrefixSum(similarities, i) ==
  IF i < 0 THEN 0 ELSE similarities[i + 1] + PrefixSum(similarities, i - 1)

\* the loop of lines 42-46, from index i on, with the locals it carries
RECURSIVE CumulativeLoop(_, _, _, _)
CumulativeLoop(similarities, i, max_cumulative, best_index) ==
  IF i >= Len(similarities) THEN best_index
  ELSE LET cumulative == PrefixSum(similarities, i)
       IN  IF cumulative > max_cumulative
           THEN CumulativeLoop(similarities, i + 1, cumulative, i)
           ELSE CumulativeLoop(similarities, i + 1, max_cumulative, best_index)

\* the same loop with >= for >: a later equal sum overwrites the recorded maximum
RECURSIVE CumulativeLoopLatestTie(_, _, _, _)
CumulativeLoopLatestTie(similarities, i, max_cumulative, best_index) ==
  IF i >= Len(similarities) THEN best_index
  ELSE LET cumulative == PrefixSum(similarities, i)
       IN  IF cumulative >= max_cumulative /\ cumulative > 0
           THEN CumulativeLoopLatestTie(similarities, i + 1, cumulative, i)
           ELSE CumulativeLoopLatestTie(similarities, i + 1, max_cumulative, best_index)

CumulativeBestLatestTie(similarities) == CumulativeLoopLatestTie(similarities, 0, 0, 0)

\* the loop with the running maximum started at the first prefix sum
CumulativeBestFromFirst(similarities) ==
  CumulativeLoop(similarities, 1, PrefixSum(similarities, 0), 0)

\* max_cumulative = 0; best_index = 0; then the loop
CumulativeBest(similarities) == CumulativeLoop(similarities, 0, 0, 0)

\* the loop of lines 49-51
RECURSIVE ThresholdLoop(_, _, _)
ThresholdLoop(similarities, i, best_index) ==
  IF i >= Len(similarities) THEN best_index
  ELSE ThresholdLoop(similarities, i + 1,
                     IF similarities[i + 1] > SimilarityThreshold
                     THEN Max(best_index, i) ELSE best_index)

ThresholdBestOffByOne(similarities, best_index) ==
  ThresholdLoop(similarities, 0, best_index) + 1

ThresholdBestFirstOnly(similarities, best_index) ==
  IF similarities[1] > SimilarityThreshold THEN Max(best_index, 0) ELSE best_index

ThresholdBest(similarities, best_index) == ThresholdLoop(similarities, 0, best_index)

\* find_covered_slides once get_slides has answered slide_data
FindCoveredSlides(slide_data, similarities) ==
  IF slide_data = <<>> THEN 0
  ELSE ThresholdBest(similarities, CumulativeBest(similarities))

(***************************************************************************)
(* The state: the slide store, the services' use_llm field (set once, from *)
(* the environment, when the services are built), and the request being    *)
(* served: the call, the locals of a handler waiting for a reply of the    *)
(* chat capability, the reply it got last, the value returned.             *)
(***************************************************************************)
VARIABLES store, use_llm, call, frame, answered, result, pc

vars == <<store, use_llm, call, frame, answered, result, pc>>

\* how many slides an uploaded document has at most
MaxSlides == 3

\* how many documents are uploaded at most
MaxUploads == 1

\* the similarities the embedding service is let to answer, in hundredths
SimValues == {-50, 0, 30, 31, 60}

NoCall == [op |-> "none"]

NoFrame == [at |-> "none"]

NoResult == "none"

NoReply == [kind |-> "nothing"]

\* VectorStore.get_slides: the slides stored under slide_id, none for an unknown id
GetSlides(slide_id) == IF slide_id \in DOMAIN store THEN store[slide_id] ELSE <<>>

\* the embedding is opaque: only the similarities the embedding service answers are used
Slide(i, text) == [slide_index |-> i, text |-> text, embedding |-> "vector"]

SlideTexts == {<<"T","h","e"," ","t","o","o","l"," ","i","s"," ","m","a","n","d","a","t","o","r","y",".">>}

SeqsUpTo(S, n) == UNION {[1..m -> S] : m \in 0..n}

Init ==
  /\ store = <<>>
  /\ use_llm \in BOOLEAN
  /\ call = NoCall
  /\ frame = NoFrame
  /\ answered = NoReply
  /\ result = NoResult
  /\ pc = "idle"

\* upload_slides (main.py): the parsed pages, embedded, stored under a fresh id
UploadSlides ==
  /\ pc = "idle"
  /\ Len(store) < MaxUploads
  /\ \E slides \in SeqsUpTo(SlideTexts, MaxSlides) :
       store' = Append(store, [i \in 1..Len(slides) |-> Slide(i - 1, slides[i])])
  /\ UNCHANGED <<use_llm, call, frame, answered, result, pc>>

\* a call of alignment_service.find_covered_slides(slide_id, notes_embedding)
CallFindCoveredSlides ==
  /\ pc = "idle"
  /\ \E slide_id \in 1..(MaxUploads + 1) :
       LET slide_data == GetSlides(slide_id)
       IN  \E similarities \in [1..Len(slide_data) -> SimValues] :
             /\ call' = [op |-> "find_covered_slides", slide_id |-> slide_id,
                         similarities |-> similarities]
             /\ result' = FindCoveredSlides(slide_data, similarities)
  /\ pc' = "done"
  /\ UNCHANGED <<store, use_llm, frame, answered>>

\* the caller takes the value
Return ==
  /\ pc = "done"
  /\ call' = NoCall
  /\ frame' = NoFrame
  /\ answered' = NoReply
  /\ result' = NoResult
  /\ pc' = "idle"
  /\ UNCHANGED <<store, use_llm>>

Next == UploadSlides \/ CallFindCoveredSlides \/ Return

Spec == Init /\ [][Next]_vars

(***************************************************************************)
(* The concept operations, called on their own.                            *)
(***************************************************************************)
\* the raw concepts a call is given: empty, blank, numbered, bulleted, noisy,
\* stop-word-only, short, and plain ones
ConceptPool ==
  {<<>>,
   <<" "," "," ">>,
   <<"1","."," ","2","."," ","r","i","s","k"," ","m","o","d","e","l">>,
   <<"1","."," ","2"," ","a","b","c">>,
   <<"-"," ","u","s","e","s"," ","d","a","t","a">>,
   <<"t","h","e"," ","s","y","s","t","e","m"," ","i","s">>,
   <<"s","l","i","d","e"," ","3"," ","o","f"," ","t","h","e"," ","d","e","c","k">>,
   <<"A","F","S","T">>,
   <<"r","i","s","k">>,
   <<" "," ","r","i","s","k"," ","s","c","o","r","e"," ","r","a","n","g","e","s"," ","f","r","o","m"," ","1"," ","t","o"," ","2","0"," ">>,
   <<"1","2","3","4","5">>,
   <<"d","a","t","a"," ","f","r","o","m"," ","2","1"," ","s","o","u","r","c","e","s">>,
   <<"BULLET"," ","b","u","l","l","e","t"," ","p","o","i","n","t"," ","t","e","x","t">>,
   <<"2",")"," ","p","r","e","d","i","c","t","s"," ","r","e","-","r","e","f","e","r","r","a","l"," ","w","i","t","h","i","n"," ","s","i","x"," ","m","o","n","t","h","s">>,
   <<"o","f"," ","t","h","e">>,
   <<"3"," ","a","b">>}

\* how many raw concepts one call is given at most
MaxConcepts == 2

SubsetsUpTo(S, n) == {T \in SUBSET S : Cardinality(T) <= n}

\* a call of concept_detector._filter_concepts(concepts)
CallFilterConcepts ==
  /\ pc = "idle"
  /\ \E concepts \in SubsetsUpTo(ConceptPool, MaxConcepts) :
       /\ call' = [op |-> "filter_concepts", concepts |-> concepts]
       /\ result' = FilterConcepts(concepts)
  /\ pc' = "done"
  /\ UNCHANGED <<store, use_llm, frame, answered>>

\* the orders list(S) is taken to produce: every order of a small set, and for a
\* larger set one order and its reverse
MaxPermuted == 3

RECURSIVE SetToSeq(_)
SetToSeq(S) ==
  IF S = {} THEN <<>>
  ELSE Bind(CHOOSE x \in S : TRUE, LAMBDA x : <<x>> \o SetToSeq(S \ {x}))

Reverse(q) == [n \in 1..Len(q) |-> q[Len(q) + 1 - n]]

ListOrders(S) ==
  IF Cardinality(S) <= MaxPermuted
  THEN {q \in [1..Cardinality(S) -> S] : \A a, b \in 1..Cardinality(S) : q[a] = q[b] => a = b}
  ELSE {SetToSeq(S), Reverse(SetToSeq(S))}

\* raw concepts handed to find_missing_concepts
MissingPool ==
  {<<"r","i","s","k"," ","m","o","d","e","l">>,
   <<"1","."," ","r","i","s","k"," ","m","o","d","e","l">>,
   <<"d","a","t","a"," ","f","r","o","m"," ","2","1"," ","s","o","u","r","c","e","s">>}

\* how many raw concepts of the pool one side of a call holds at most
MaxMissingInput == 2

TopicLetters == <<"b","c","d","e","f","g","h","i","j","k","l","m","n","o","p","q">>

\* one concept more than find_missing_concepts returns
ManyTopics ==
  {<<"t","o","p","i","c"," ">> \o <<TopicLetters[k]>> : k \in 1..(MissingLimit + 1)}

\* the pairs of concept sets a call is given: small sets of the pool, and the many
\* topics against themselves, against nothing and against one other concept
MissingInputs ==
  (SubsetsUpTo(MissingPool, MaxMissingInput) \X SubsetsUpTo(MissingPool, MaxMissingInput))
    \cup {<<ManyTopics, ManyTopics>>, <<ManyTopics, {}>>,
          <<ManyTopics, {<<"r","i","s","k"," ","m","o","d","e","l">>}>>}

\* similarities of concept pairs: unrelated, just under 0.75, exactly 0.75
LowSim == -20

RelatedSims == {74, 75}

\* how many pairs of one call are related at most
MaxRelated == 1

\* the sets of at most n of the pairs
RECURSIVE PairSetsUpTo(_, _)
PairSetsUpTo(pairs, n) ==
  IF n = 0 THEN {{}}
  ELSE LET fewer == PairSetsUpTo(pairs, n - 1)
       IN  fewer \cup {H \cup {p} : H \in fewer, p \in pairs}

SimilarityTables(missing, notes) ==
  {[p \in missing \X notes |-> IF p \in DOMAIN g THEN g[p] ELSE LowSim] :
     g \in UNION {[H -> RelatedSims] : H \in PairSetsUpTo(missing \X notes, MaxRelated)}}

\* a call of concept_detector.find_missing_concepts(lecture_concepts, notes_concepts);
\* `answered` holds the embed_batch the call made, if it made one
CallFindMissingConcepts ==
  /\ pc = "idle"
  /\ \E given \in MissingInputs :
     \E lecture_concepts \in {given[1]}, notes_concepts \in {given[2]} :
       \E notes \in {FilterConcepts(notes_concepts)} :
         \E missing \in {MissingDifference(FilterConcepts(lecture_concepts), notes)} :
           \E missing_list \in ListOrders(missing), notes_list \in ListOrders(notes),
              sim \in SimilarityTables(missing, notes) :
             \E found \in {FindMissingConcepts(lecture_concepts, notes_concepts,
                                               missing_list, notes_list, sim)} :
               /\ call' = [op |-> "find_missing_concepts",
                           lecture_concepts |-> lecture_concepts,
                           notes_concepts |-> notes_concepts,
                           missing_list |-> missing_list, notes_list |-> notes_list,
                           sim |-> sim]
               /\ result' = found.value
               /\ answered' = IF found.embedded
                              THEN [kind |-> "embed_batch", missing_list |-> missing_list,
                                    notes_list |-> notes_list]
                              ELSE NoReply
  /\ pc' = "done"
  /\ UNCHANGED <<store, use_llm, frame>>

\* concepts handed to select_priority_concepts
PriorityPool ==
  {<<"r","i","s","k"," ","m","o","d","e","l">>,
   <<"d","a","t","a"," ","m","o","d","e","l">>,
   <<"s","c","o","r","e"," ","r","a","n","g","e","s"," ","f","r","o","m"," ","1"," ","t","o"," ","2","0">>,
   <<"t","h","e"," ","t","o","o","l"," ","h","e","l","p","s"," ","m","a","n","y"," ","c","o","u","n","t","y"," ","s","t","a","f","f">>,
   <<"U","s","e","s"," ","2","1">>}

\* how many concepts one call of select_priority_concepts is given at most
MaxPriorityInput == 3

\* the largest limit a call is given
MaxLimit == 4

\* a call of concept_detector.select_priority_concepts(concepts, limit)
CallSelectPriorityConcepts ==
  /\ pc = "idle"
  /\ \E concepts \in SubsetsUpTo(PriorityPool, MaxPriorityInput), limit \in 0..MaxLimit :
       \E listed \in ListOrders(concepts) :
         /\ call' = [op |-> "select_priority_concepts", concepts |-> concepts,
                     listed |-> listed, limit |-> limit]
         /\ result' = SelectPriorityConcepts(concepts, listed, limit)
  /\ pc' = "done"
  /\ UNCHANGED <<store, use_llm, frame, answered>>


NextConcepts ==
  CallFilterConcepts \/ CallFindMissingConcepts \/ CallSelectPriorityConcepts \/ Return

SpecConcepts == Init /\ [][NextConcepts]_vars

(***************************************************************************)
(* The misconception operations, called on their own.                      *)
(***************************************************************************)
\* pieces of text without a sentence break: 9, 10, 10 (padded), 11 and 2 characters
\* once stripped
FragmentPool ==
  {<<"N","i","n","e"," ","c","h","a","r">>,
   <<"E","x","a","c","t","l","y"," ","1","0">>,
   <<" "," ","T","e","n"," "," ","c","h","a","r","s"," ">>,
   <<"E","l","e","v","e","n"," ","c","h","a","r">>,
   <<"o","k">>}

\* sentence breaks: a terminator and the whitespace after it
BreakPool == {<<"."," ">>, <<"!"," "," ">>, <<"?","\n">>}

\* how many fragments a text is put together from at most
MaxFragments == 3

\* a call of misconception_detector._split_into_sentences(text): the text is the
\* fragments with one sentence break between neighbours
CallSplitIntoSentences ==
  /\ pc = "idle"
  /\ \E fragments \in SeqsUpTo(FragmentPool, MaxFragments), break \in BreakPool :
       LET text == StrJoin(break, fragments)
       IN  /\ call' = [op |-> "split_into_sentences", fragments |-> fragments, text |-> text]
           /\ result' = SplitIntoSentences(text)
  /\ pc' = "done"
  /\ UNCHANGED <<store, use_llm, frame, answered>>

\* the notes a scan is given
NotesPool ==
  {<<>>,
   <<"T","h","e"," ","t","o","o","l"," ","i","s"," ","n","o","t"," ","m","a","n","d","a","t","o","r","y",".">>,
   <<"T","h","e"," ","r","i","s","k"," ","s","c","o","r","e"," ","r","a","n","g","e","s"," ","f","r","o","m"," ","1"," ","t","o"," ","5",".">>,
   <<"T","h","e"," ","t","o","o","l"," ","c","a","n"," ","n","e","v","e","r"," ","b","e"," ","w","r","o","n","g","."," ","T","h","e"," ","s","c","o","r","e"," ","i","s"," ","5">>}

\* the slide texts of the documents a scan is run against
DeckPool ==
  {<<>>,
   <<<<"T","h","e"," ","t","o","o","l"," ","i","s"," ","m","a","n","d","a","t","o","r","y",".">>>>,
   <<<<"T","h","e"," ","r","i","s","k"," ","s","c","o","r","e"," ","r","a","n","g","e","s"," ","f","r","o","m"," ","1"," ","t","o"," ","2","0",".">>>>,
   <<<<"T","h","e"," ","t","o","o","l"," ","c","a","n","n","o","t"," ","a","l","w","a","y","s"," ","b","e"," ","c","o","r","r","e","c","t",".">>, <<"T","h","e"," ","s","c","o","r","e"," ","i","s"," ","7","."," ","S","h","o","r","t",".">>>>,
   <<<<"T","h","e"," ","t","o","o","l"," ","i","s"," ","a","l","w","a","y","s"," ","m","a","n","d","a","t","o","r","y",","," ","y","e","s",","," ","f","o","r"," ","e","v","e","r","y"," ","s","c","r","e","e","n","e","r"," ","i","n"," ","e","v","e","r","y"," ","c","o","u","n","t","y"," ","o","f","f","i","c","e"," ","a","n","d"," ","f","o","r"," ","e","v","e","r","y"," ","c","a","l","l"," ","t","h","a","t"," ","r","e","a","c","h","e","s"," ","t","h","e"," ","h","o","t","l","i","n","e",","," ","w","h","e","t","h","e","r"," ","t","h","e"," ","c","a","l","l"," ","c","o","m","e","s"," ","b","y"," ","d","a","y",","," ","b","y"," ","n","i","g","h","t",","," ","o","n"," ","a"," ","w","e","e","k","e","n","d"," ","o","r"," ","o","n"," ","a"," ","p","u","b","l","i","c"," ","h","o","l","i","d","a","y",","," ","a","l","l"," ","y","e","a","r"," ","r","o","u","n","d">>>>}

\* the similarities of sentence pairs: not related, related, the same concept
PairSimValues == {50, 60, 61}

\* the replies of the classification capability
ClassifierContents ==
  {<<"N","O">>,
   <<"Y","E","S","|","U","s","e"," ","t","h","e"," ","v","a","l","u","e"," ","o","f"," ","t","h","e"," ","l","e","c","t","u","r","e",".">>,
   <<"Y","E","S">>,
   <<"M","a","y","b","e">>,
   <<>>}

ClassifierReplies ==
  {[kind |-> "error"], [kind |-> "none"]}
    \cup {[kind |-> "content", content |-> c] : c \in ClassifierContents}

SlidesOf(texts) == [n \in 1..Len(texts) |-> Slide(n - 1, texts[n])]

\* where a handler that ran to `st` stands: at its return, or waiting for a reply
Reach(st, value) ==
  IF st.at = "return"
  THEN /\ frame' = NoFrame
       /\ result' = value
       /\ pc' = "done"
  ELSE /\ frame' = st
       /\ result' = NoResult
       /\ pc' = "awaiting"

\* a call of misconception_detector.detect(notes_text, slide_data)
CallDetect ==
  /\ pc = "idle"
  /\ \E notes_text \in NotesPool, texts \in DeckPool :
       LET slide_data == SlidesOf(texts)
           n == Len(NoteSentences(notes_text))
           m == Len(LectureSentences(slide_data))
       IN  \E sim \in [1..n -> [1..m -> PairSimValues]] :
             LET st == DetectStart(use_llm, notes_text, slide_data, sim)
             IN  /\ call' = [op |-> "detect", notes_text |-> notes_text,
                             slide_data |-> slide_data, sim |-> sim]
                 /\ Reach(st, IF st.at = "return" THEN st.misconceptions ELSE NoResult)
  /\ UNCHANGED <<store, use_llm, answered>>

\* the classification capability answers the _check_with_llm that waits for it
ClassifierAnswers ==
  /\ pc = "awaiting"
  /\ frame.at = "check_with_llm"
  /\ \E reply \in ClassifierReplies :
       LET st == DetectResume(call.sim, frame, reply)
       IN  /\ answered' = [kind |-> "check_with_llm", i |-> frame.i,
                           best_lecture_idx |-> frame.best_lecture_idx, reply |-> reply]
           /\ Reach(st, IF st.at = "return" THEN st.misconceptions ELSE NoResult)
  /\ UNCHANGED <<store, use_llm, call>>

\* pairs <<note_sentence, lecture_sentence>> handed to _check_contradiction
SentencePairPool ==
  {<<<<"T","h","e"," ","t","o","o","l"," ","i","s"," ","n","o","t"," ","m","a","n","d","a","t","o","r","y",".">>,
     <<"T","h","e"," ","t","o","o","l"," ","i","s"," ","m","a","n","d","a","t","o","r","y",".">>>>,
   <<<<"T","h","e"," ","t","o","o","l"," ","i","s"," ","n","o","t"," ","m","a","n","d","a","t","o","r","y",".">>,
     <<"T","h","e"," ","t","o","o","l"," ","i","s"," ","n","o","t"," ","o","p","t","i","o","n","a","l",".">>>>,
   <<<<"T","h","e"," ","s","c","o","r","e"," ","i","s"," ","5">>,
     <<"T","h","e"," ","s","c","o","r","e"," ","i","s"," ","2","0",".">>>>,
   <<<<"T","h","e"," ","r","i","s","k"," ","s","c","o","r","e"," ","r","a","n","g","e","s"," ","f","r","o","m"," ","1"," ","t","o"," ","5",".">>,
     <<"T","h","e"," ","r","i","s","k"," ","s","c","o","r","e"," ","r","a","n","g","e","s"," ","f","r","o","m"," ","1"," ","t","o"," ","2","0",".">>>>,
   <<<<"I","t"," ","i","s"," ","n","e","v","e","r"," ","w","r","o","n","g"," ","a","n","d"," ","c","a","n","n","o","t"," ","f","a","i","l",","," ","n","o",".">>,
     <<"I","t"," ","i","s"," ","a","l","w","a","y","s"," ","c","o","r","r","e","c","t",","," ","y","e","s"," ","i","t"," ","c","a","n",".">>>>,
   <<<<"T","h","e"," ","t","o","o","l"," ","c","a","n"," ","n","e","v","e","r"," ","b","e"," ","w","r","o","n","g"," ","5">>,
     <<"T","h","e"," ","t","o","o","l"," ","c","a","n","n","o","t"," ","a","l","w","a","y","s"," ","b","e"," ","c","o","r","r","e","c","t"," ","7">>>>,
   <<<<"T","h","e"," ","c","o","u","n","t","y"," ","t","r","a","i","n","s"," ","s","t","a","f","f">>,
     <<"S","t","a","f","f"," ","g","e","t"," ","t","r","a","i","n","e","d"," ","y","e","a","r","l","y">>>>}

\* a call of misconception_detector._check_contradiction(note_sentence, lecture_sentence);
\* `similarity` is what the embedding service answers for the re-embedded pair
CallCheckContradiction ==
  /\ pc = "idle"
  /\ \E pair \in SentencePairPool, similarity \in PairSimValues :
       /\ call' = [op |-> "check_contradiction", note_sentence |-> pair[1],
                   lecture_sentence |-> pair[2], similarity |-> similarity]
       /\ result' = CheckContradiction(pair[1], pair[2], similarity)
  /\ pc' = "done"
  /\ UNCHANGED <<store, use_llm, frame, answered>>

NextDetect ==
  CallSplitIntoSentences \/ CallCheckContradiction \/ CallDetect \/ ClassifierAnswers \/ Return

SpecDetect == Init /\ [][NextDetect]_vars

(***************************************************************************)
(* The concept extraction operations, called on their own, with the chat   *)
(* capability answering a waiting _extract_with_llm.                       *)
(***************************************************************************)
\* texts handed to extract_concepts_from_text
ExtractTexts ==
  {<<>>,
   <<"A","F","S","T"," ","s","t","a","n","d","s"," ","f","o","r"," ","A","l","l","e","g","h","e","n","y"," ","F","a","m","i","l","y"," ","S","c","r","e","e","n","i","n","g"," ","T","o","o","l",".">>,
   <<"T","h","e"," ","m","o","d","e","l"," ","u","s","e","s"," ","d","a","t","a"," ","f","r","o","m"," ","2","1"," ","s","o","u","r","c","e","s",".">>,
   <<"S","h","o","r","t"," ","t","e","x","t",".">>,
   <<" "," "," ">>}

\* texts of the slides handed to extract_concepts
ExtractSlideTexts ==
  {<<"A","F","S","T"," ","s","t","a","n","d","s"," ","f","o","r"," ","A","l","l","e","g","h","e","n","y"," ","F","a","m","i","l","y"," ","S","c","r","e","e","n","i","n","g"," ","T","o","o","l",".">>,
   <<>>}

\* how many slides a deck handed to extract_concepts has at most
MaxDeck == 3

\* message.content of the replies: an array of strings, a fenced array of
\* strings, an object, a number, a string, and prose
ExtractorContents ==
  {<<"[","\"","A","F","S","T"," ","i","s"," ","a"," ","c","o","u","n","t","y"," ","t","o","o","l","\"","]">>,
   <<"BACKTICK","BACKTICK","BACKTICK","j","s","o","n","\n","[","\"","S","c","o","r","e","s"," ","r","e","a","c","h"," ","2","0","\"","]","\n","BACKTICK","BACKTICK","BACKTICK">>,
   <<"{","\"","c","o","n","c","e","p","t","s","\"",":"," ","[","\"","A","F","S","T"," ","i","s"," ","a"," ","t","o","o","l","\"","]","}">>,
   <<"4","2">>,
   <<"\"","A","F","S","T"," ","i","s"," ","a"," ","t","o","o","l","\"">>,
   <<"S","o","r","r","y",","," ","I"," ","c","a","n","n","o","t"," ","h","e","l","p",".">>}

ExtractorReplies ==
  {[kind |-> "error"], [kind |-> "none"]}
    \cup {[kind |-> "content", content |-> c] : c \in ExtractorContents}

\* a call of concept_detector.extract_concepts_from_text(text)
CallExtractConceptsFromText ==
  /\ pc = "idle"
  /\ \E text \in ExtractTexts :
       LET st == ExtractTextStart(use_llm, text)
       IN  /\ call' = [op |-> "extract_concepts_from_text", text |-> text,
                       slide_data |-> <<>>]
           /\ Reach(st, IF st.at = "return" THEN st.concepts ELSE NoResult)
  /\ UNCHANGED <<store, use_llm, answered>>

\* a call of concept_detector.extract_concepts(slide_data)
CallExtractConcepts ==
  /\ pc = "idle"
  /\ \E texts \in SeqsUpTo(ExtractSlideTexts, MaxDeck) :
       LET st == ExtractLoop(use_llm, SlidesOf(texts), 0, {})
       IN  /\ call' = [op |-> "extract_concepts", slide_data |-> SlidesOf(texts)]
           /\ Reach(st, IF st.at = "return" THEN st.concepts ELSE NoResult)
  /\ UNCHANGED <<store, use_llm, answered>>

\* the chat capability answers the _extract_with_llm that waits for it; `returned`
\* is what _extract_with_llm hands back to the handler
ExtractorAnswers ==
  /\ pc = "awaiting"
  /\ frame.at = "extract_with_llm"
  /\ \E reply \in ExtractorReplies :
       LET concepts == ExtractWithLlm(frame.text, reply)
           st == ExtractResume(use_llm, call.slide_data, frame, concepts)
       IN  /\ answered' = [kind |-> "extract_with_llm", text |-> frame.text,
                           reply |-> reply, returned |-> concepts]
           /\ Reach(st, IF st.at = "return" THEN st.concepts ELSE NoResult)
  /\ UNCHANGED <<store, use_llm, call>>

NextExtract ==
  CallExtractConceptsFromText \/ CallExtractConcepts \/ ExtractorAnswers \/ Return

SpecExtract == Init /\ [][NextExtract]_vars


(***************************************************************************)
(* The operations that delegate to the chat capability, together.  The     *)
(* services build the client with OpenAI(api_key=api_key) and call         *)
(* chat.completions.create without a timeout argument, and no step of a    *)
(* handler ends its wait: a handler that waits goes on when the capability *)
(* answers, with a reply or with a raised error.  Only the caller taking   *)
(* the returned value is a step the program takes by itself.               *)
(***************************************************************************)
NextLlm ==
  \/ CallExtractConceptsFromText
  \/ CallExtractConcepts
  \/ ExtractorAnswers
  \/ CallDetect
  \/ ClassifierAnswers
  \/ Return

SpecLlmFair == Init /\ [][NextLlm]_vars /\ WF_vars(Return)

(***************************************************************************)
(* The operations of the core, each called on its own against a store that *)
(* holds no document.                                                      *)
(***************************************************************************)
NextCore ==
  \/ CallFindCoveredSlides
  \/ CallFilterConcepts \/ CallFindMissingConcepts \/ CallSelectPriorityConcepts
  \/ CallDetect \/ ClassifierAnswers
  \/ CallExtractConceptsFromText \/ CallExtractConcepts \/ ExtractorAnswers
  \/ Return

SpecCore == Init /\ [][NextCore]_vars

(***************************************************************************)
(* The request handlers scan_notes and refresh_question (main.py).         *)
(* quiz_generator = QuizGenerator() at line 39 raises without the API key, *)
(* so the application serves requests only with the key set, and then the  *)
(* detectors are built with use_llm on.  A handler's `call` holds its      *)
(* request, what the embedding service answered, and `made`, the service   *)
(* calls the handler has made so far.  A response is [status |-> 200, ...] *)
(* or, for an HTTPException, [status |-> code, detail |-> text].           *)
(***************************************************************************)
\* the notes of a request
ScanNotesPool ==
  {<<"T","h","e"," ","t","o","o","l"," ","i","s"," ","n","o","t"," ","m","a","n","d","a","t","o","r","y",".">>}

\* the similarities of the notes to the slides: not covered, covered
AppSimValues == {0, 31}

\* the similarities of sentence pairs: not related, related
AppPairSimValues == {50, 61}

\* the replies of the classification capability to a request
AppClassifierReplies ==
  {[kind |-> "error"],
   [kind |-> "content", content |-> <<"N","O">>],
   [kind |-> "content", content |-> <<"Y","E","S","|","I","t"," ","i","s",".">>]}

\* generate_single returns {} when it gets no question out of the reply
EmptyQuestion == [topic |-> "none"]

AQuestion == [topic |-> "Mandatory use"]

\* the replies of the quiz capability, each given by the question that
\* generate_single makes of it after json.loads and _normalize_questions
QuizReplies ==
  {[kind |-> "error"],
   [kind |-> "content", question |-> EmptyQuestion],
   [kind |-> "content", question |-> AQuestion]}

\* request.previous_questions
PreviousQuestionsPool == {<<>>, <<[topic |-> "Mandatory use"]>>}

\* str(e) of the HTTPException of lines 91 and 123: the text depends on the
\* version of the framework
HttpExceptionTexts == {"", "404: Slides not found"}

HttpError(status_code, detail) == [status |-> status_code, detail |-> detail]

\* slide_data[:min(covered_slides + 1, len(slide_data))]
CoveredSlideData(slide_data, covered_slides) ==
  Slice(slide_data, 0, Min(covered_slides + 1, Len(slide_data)))

\* the covered slides of the request being served
CallCovered ==
  CoveredSlideData(GetSlides(call.slide_id),
                   FindCoveredSlides(GetSlides(call.slide_id), call.similarities))

\* "\n\n".join(s.get("text", "") for s in slide_data if s.get("text"))
QuizLectureText(slide_data) ==
  Bind(SelectSeq(slide_data, LAMBDA s : s.text # <<>>), LAMBDA with_text :
    StrJoin(<<"\n", "\n">>, [n \in 1..Len(with_text) |-> with_text[n].text]))

\* generate_single up to the capability call: {} for no slide and for no text
GenerateSingleStart(slide_data) ==
  IF slide_data = <<>> THEN [at |-> "return", question |-> EmptyQuestion]
  ELSE IF IsBlank(QuizLectureText(slide_data))
       THEN [at |-> "return", question |-> EmptyQuestion]
       ELSE [at |-> "generate_single"]

\* generate_single from the reply on
GenerateSingleResume(reply) ==
  IF reply.kind = "content" THEN reply.question ELSE EmptyQuestion

\* the body scan_notes returns (lines 108-113)
ScanResponse(question, misconceptions, covered_slide_data, slide_data) ==
  [status |-> 200, question |-> question, misconceptions |-> misconceptions,
   covered_slides |-> Len(covered_slide_data), total_slides |-> Len(slide_data)]

\* the body refresh_question returns (lines 138-142)
RefreshResponse(question, covered_slide_data, slide_data) ==
  [status |-> 200, question |-> question,
   covered_slides |-> Len(covered_slide_data), total_slides |-> Len(slide_data)]

\* scan_notes from the point detect has run to `st`: wait for the classifier, or
\* go on to generate_single and wait for the quiz capability, or return
ScanReach(req, st, covered_slide_data, slide_data) ==
  IF st.at = "check_with_llm"
  THEN /\ call' = req
       /\ frame' = st
       /\ result' = NoResult
       /\ pc' = "awaiting"
  ELSE /\ call' = [req EXCEPT !.made = Append(req.made, "generate_single")]
       /\ LET quiz == GenerateSingleStart(covered_slide_data)
          IN  IF quiz.at = "return"
              THEN /\ frame' = NoFrame
                   /\ result' = ScanResponse(quiz.question, st.misconceptions,
                                             covered_slide_data, slide_data)
                   /\ pc' = "done"
              ELSE /\ frame' = [at |-> "generate_single",
                                misconceptions |-> st.misconceptions]
                   /\ result' = NoResult
                   /\ pc' = "awaiting"

\* the HTTPException of line 91 or 123 is raised inside the try and caught by the
\* except Exception of line 114 or 143
NotFound(req) ==
  /\ call' = req
  /\ frame' = NoFrame
  /\ \E detail \in HttpExceptionTexts : result' = HttpError(500, detail)
  /\ pc' = "done"

\* POST /api/scan-notes
ScanNotes ==
  /\ pc = "idle"
  /\ use_llm
  /\ \E slide_id \in 1..(MaxUploads + 1), notes_text \in ScanNotesPool :
       LET slide_data == GetSlides(slide_id)
           req == [op |-> "scan_notes", slide_id |-> slide_id, notes_text |-> notes_text,
                   similarities |-> <<>>, sim |-> <<>>, made |-> <<>>]
       IN  IF slide_data = <<>>
           THEN NotFound(req)
           ELSE \E similarities \in [1..Len(slide_data) -> AppSimValues] :
                  \E covered_slide_data \in
                       {CoveredSlideData(slide_data,
                                         FindCoveredSlides(slide_data, similarities))} :
                    \E sim \in [1..Len(NoteSentences(notes_text)) ->
                                  [1..Len(LectureSentences(covered_slide_data)) ->
                                     AppPairSimValues]] :
                      \E st \in {DetectStart(use_llm, notes_text, covered_slide_data, sim)} :
                        ScanReach([req EXCEPT !.similarities = similarities, !.sim = sim,
                                              !.made = <<"embed", "find_covered_slides",
                                                         "detect">>],
                                  st, covered_slide_data, slide_data)
  /\ UNCHANGED <<store, use_llm, answered>>

\* the classification capability answers the _check_with_llm of a scan
ScanClassifierAnswers ==
  /\ pc = "awaiting"
  /\ call.op = "scan_notes"
  /\ frame.at = "check_with_llm"
  /\ \E reply \in AppClassifierReplies :
       \E st \in {DetectResume(call.sim, frame, reply)} :
         /\ answered' = [kind |-> "check_with_llm", i |-> frame.i,
                         best_lecture_idx |-> frame.best_lecture_idx, reply |-> reply]
         /\ ScanReach(call, st, CallCovered, GetSlides(call.slide_id))
  /\ UNCHANGED <<store, use_llm>>

\* POST /api/refresh-question
RefreshQuestion ==
  /\ pc = "idle"
  /\ use_llm
  /\ \E slide_id \in 1..(MaxUploads + 1), notes_text \in ScanNotesPool,
        previous_questions \in PreviousQuestionsPool :
       LET slide_data == GetSlides(slide_id)
           req == [op |-> "refresh_question", slide_id |-> slide_id,
                   notes_text |-> notes_text, previous_questions |-> previous_questions,
                   similarities |-> <<>>, made |-> <<>>]
       IN  IF slide_data = <<>>
           THEN NotFound(req)
           ELSE \E similarities \in [1..Len(slide_data) -> AppSimValues] :
                  \E covered_slide_data \in
                       {CoveredSlideData(slide_data,
                                         FindCoveredSlides(slide_data, similarities))} :
                    /\ call' = [req EXCEPT !.similarities = similarities,
                                           !.made = <<"embed", "find_covered_slides",
                                                      "generate_single">>]
                    /\ LET quiz == GenerateSingleStart(covered_slide_data)
                       IN  IF quiz.at = "return"
                           THEN /\ frame' = NoFrame
                                /\ result' = RefreshResponse(quiz.question,
                                                             covered_slide_data, slide_data)
                                /\ pc' = "done"
                           ELSE /\ frame' = [at |-> "generate_single"]
                                /\ result' = NoResult
                                /\ pc' = "awaiting"
  /\ UNCHANGED <<store, use_llm, answered>>

\* the quiz capability answers the generate_single of a handler
QuizAnswers ==
  /\ pc = "awaiting"
  /\ frame.at = "generate_single"
  /\ \E reply \in QuizReplies :
       /\ answered' = [kind |-> "generate_single", reply |-> reply]
       /\ result' = IF call.op = "scan_notes"
                    THEN ScanResponse(GenerateSingleResume(reply), frame.misconceptions,
                                      CallCovered, GetSlides(call.slide_id))
                    ELSE RefreshResponse(GenerateSingleResume(reply), CallCovered,
                                         GetSlides(call.slide_id))
  /\ frame' = NoFrame
  /\ pc' = "done"
  /\ UNCHANGED <<store, use_llm, call>>

NextApp ==
  UploadSlides \/ ScanNotes \/ ScanClassifierAnswers \/ RefreshQuestion \/ QuizAnswers
    \/ Return

SpecApp == Init /\ [][NextApp]_vars

(***************************************************************************)
(* Requests served at the same time.  Each request of Requests has its own *)
(* call, locals, replies, result and position: in this specification call, *)
(* frame, answered, result and pc are functions of the request, and        *)
(* answered[r] is the sequence of replies request r has got.  The store    *)
(* and the services' use_llm field are shared.  An operation runs from one *)
(* capability call to the next in one step: between two such calls it      *)
(* touches its own locals only.                                            *)
(***************************************************************************)
Requests == {1, 2}

\* how many documents are uploaded, each while no request is being served
MaxQuietUploads == 1

\* the document uploaded
QuietDeck == <<<<"T","h","e"," ","t","o","o","l"," ","i","s"," ","m","a","n","d","a","t","o","r","y",".">>, <<"T","h","e"," ","t","o","o","l"," ","i","s"," ","m","a","n","d","a","t","o","r","y",".">>>>

\* the similarities of the notes to a slide
QuietSimValues == {-50, 31}

\* VectorStore.get_slides on the store st
SlidesIn(st, slide_id) == IF slide_id \in DOMAIN st THEN st[slide_id] ELSE <<>>

\* the calls of the operations that read no shared object
PureRequests ==
  {[op |-> "filter_concepts", concepts |-> {<<"1","."," ","r","i","s","k"," ","m","o","d","e","l">>}],
   [op |-> "find_missing_concepts", lecture_concepts |-> {<<"r","i","s","k"," ","m","o","d","e","l">>},
    notes_concepts |-> {}, missing_list |-> <<<<"r","i","s","k"," ","m","o","d","e","l">>>>,
    notes_list |-> <<>>, sim |-> <<>>],
   [op |-> "select_priority_concepts",
    concepts |-> {<<"r","i","s","k"," ","m","o","d","e","l">>, <<"U","s","e","s"," ","2","1">>},
    listed |-> <<<<"r","i","s","k"," ","m","o","d","e","l">>, <<"U","s","e","s"," ","2","1">>>>, limit |-> 1]}

\* the calls of the operations that read self.use_llm
LlmRequests ==
  {[op |-> "extract_concepts",
    slide_data |-> SlidesOf(<<<<"S","h","o","r","t"," ","t","e","x","t",".">>, <<"S","h","o","r","t"," ","t","e","x","t",".">>, <<"S","h","o","r","t"," ","t","e","x","t",".">>>>)],
   [op |-> "extract_concepts_from_text", text |-> <<"S","h","o","r","t"," ","t","e","x","t",".">>,
    slide_data |-> <<>>],
   [op |-> "detect", notes_text |-> <<"T","h","e"," ","t","o","o","l"," ","c","a","n"," ","n","e","v","e","r"," ","b","e"," ","w","r","o","n","g","."," ","T","h","e"," ","s","c","o","r","e"," ","i","s"," ","5">>,
    slide_data |-> SlidesOf(<<<<"T","h","e"," ","t","o","o","l"," ","c","a","n","n","o","t"," ","a","l","w","a","y","s"," ","b","e"," ","c","o","r","r","e","c","t",".">>, <<"T","h","e"," ","s","c","o","r","e"," ","i","s"," ","7","."," ","S","h","o","r","t",".">>>>),
    sim |-> <<<<61, 61>>, <<61, 61>>>>]}

\* the calls of find_covered_slides against the store st
CoverageRequests(st) ==
  {[op |-> "find_covered_slides", slide_id |-> slide_id, similarities |-> similarities] :
     slide_id \in {1}, similarities \in [1..Len(SlidesIn(st, 1)) -> QuietSimValues]}

\* the replies of the chat capability to a waiting operation
ConcurrentReplies(waiting) ==
  IF waiting.at = "extract_with_llm"
  THEN {[kind |-> "error"],
        [kind |-> "content", content |-> <<"[","\"","A","F","S","T"," ","i","s"," ","a"," ","c","o","u","n","t","y"," ","t","o","o","l","\"","]">>]}
  ELSE {[kind |-> "error"], [kind |-> "content", content |-> <<"N","O">>]}

\* a failed capability call with self.use_llm switched off
UseLlmAfterReplyOff(llm, reply) == IF reply.kind = "error" THEN FALSE ELSE llm

\* self.use_llm after a reply: neither _check_with_llm nor _extract_with_llm
\* assigns it, also not in the except branch
UseLlmAfterReply(llm, reply) == llm

\* where an operation stands: at its return with `value`, or waiting with its locals
Landed(st) ==
  IF st.at # "return" THEN st
  ELSE [at |-> "return",
        value |-> IF "concepts" \in DOMAIN st THEN st.concepts ELSE st.misconceptions]

\* the operation of req from its call to its first wait or its return, against
\* the store st and with self.use_llm = llm
StartRequest(req, st, llm) ==
  IF req.op = "find_covered_slides"
  THEN [at |-> "return",
        value |-> FindCoveredSlides(SlidesIn(st, req.slide_id), req.similarities)]
  ELSE IF req.op = "filter_concepts"
  THEN [at |-> "return", value |-> FilterConcepts(req.concepts)]
  ELSE IF req.op = "find_missing_concepts"
  THEN [at |-> "return",
        value |-> FindMissingConcepts(req.lecture_concepts, req.notes_concepts,
                                      req.missing_list, req.notes_list, req.sim).value]
  ELSE IF req.op = "select_priority_concepts"
  THEN [at |-> "return",
        value |-> SelectPriorityConcepts(req.concepts, req.listed, req.limit)]
  ELSE IF req.op = "extract_concepts"
  THEN Landed(ExtractLoop(llm, req.slide_data, 0, {}))
  ELSE IF req.op = "extract_concepts_from_text"
  THEN Landed(ExtractTextStart(llm, req.text))
  ELSE Landed(DetectStart(llm, req.notes_text, req.slide_data, req.sim))

\* the waiting operation of req from the reply to its next wait or its return
ResumeRequest(req, waiting, reply, llm) ==
  IF waiting.at = "extract_with_llm"
  THEN Bind(ExtractWithLlm(waiting.text, reply), LAMBDA concepts :
         Landed(ExtractResume(llm, req.slide_data, waiting, concepts)))
  ELSE Landed(DetectResumeWith(llm, req.sim, waiting, reply))

InitConcurrent ==
  /\ store = <<>>
  /\ use_llm \in BOOLEAN
  /\ call = [r \in Requests |-> NoCall]
  /\ frame = [r \in Requests |-> NoFrame]
  /\ answered = [r \in Requests |-> <<>>]
  /\ result = [r \in Requests |-> NoResult]
  /\ pc = [r \in Requests |-> "idle"]

\* upload_slides, while no request is being served
QuietUpload ==
  /\ \A r \in Requests : pc[r] = "idle"
  /\ Len(store) < MaxQuietUploads
  /\ store' = Append(store, SlidesOf(QuietDeck))
  /\ UNCHANGED <<use_llm, call, frame, answered, result, pc>>

\* request r is at st
LandRequest(r, st) ==
  IF st.at = "return"
  THEN /\ frame' = [frame EXCEPT ![r] = NoFrame]
       /\ result' = [result EXCEPT ![r] = st.value]
       /\ pc' = [pc EXCEPT ![r] = "done"]
  ELSE /\ frame' = [frame EXCEPT ![r] = st]
       /\ result' = [result EXCEPT ![r] = NoResult]
       /\ pc' = [pc EXCEPT ![r] = "awaiting"]

\* request r calls an operation of the core; the call keeps what the store and
\* self.use_llm were when it was made
BeginRequest(r) ==
  /\ pc[r] = "idle"
  /\ \E req \in PureRequests \cup LlmRequests \cup CoverageRequests(store) :
       \E st \in {StartRequest(req, store, use_llm)} :
         /\ call' = [call EXCEPT ![r] = [req |-> req, store |-> store, use_llm |-> use_llm]]
         /\ LandRequest(r, st)
  /\ UNCHANGED <<store, use_llm, answered>>

\* the chat capability answers the waiting operation of request r
AnswerRequest(r) ==
  /\ pc[r] = "awaiting"
  /\ \E reply \in ConcurrentReplies(frame[r]) :
       \E st \in {ResumeRequest(call[r].req, frame[r], reply, use_llm)} :
         /\ answered' = [answered EXCEPT ![r] = Append(answered[r], reply)]
         /\ use_llm' = UseLlmAfterReply(use_llm, reply)
         /\ LandRequest(r, st)
  /\ UNCHANGED <<store, call>>

\* the caller of request r takes the value
FinishRequest(r) ==
  /\ pc[r] = "done"
  /\ call' = [call EXCEPT ![r] = NoCall]
  /\ answered' = [answered EXCEPT ![r] = <<>>]
  /\ result' = [result EXCEPT ![r] = NoResult]
  /\ pc' = [pc EXCEPT ![r] = "idle"]
  /\ UNCHANGED <<store, use_llm, frame>>

NextConcurrent ==
  \/ QuietUpload
  \/ \E r \in Requests : BeginRequest(r) \/ AnswerRequest(r) \/ FinishRequest(r)

SpecConcurrent == InitConcurrent /\ [][NextConcurrent]_vars

(***************************************************************************)
(* Coverage estimation: claims C1-C3.                                      *)
(***************************************************************************)
CoverageReturned == pc = "done" /\ call.op = "find_covered_slides"

CoveredSlideCount == Len(GetSlides(call.slide_id))

\* C1: find_covered_slides returns an index in 0..n-1 for a stored list of n >= 1
\* slides, whatever the similarities, and 0 when the store has no slides for the id.
C1_CoverageIndexInRange ==
  CoverageReturned =>
    /\ result >= 0
    /\ IF CoveredSlideCount = 0 THEN result = 0 ELSE result <= CoveredSlideCount - 1

\* a full document whose last slide is the one reached
C1_Witness ==
  /\ CoverageReturned
  /\ CoveredSlideCount = MaxSlides
  /\ result = CoveredSlideCount - 1

\* C2: every slide whose own similarity exceeds 0.3 is at or below the index returned.
C2_ThresholdSlideReached ==
  CoverageReturned =>
    \A k \in 1..Len(call.similarities) :
      call.similarities[k] > SimilarityThreshold => result >= k - 1

\* a slide above the threshold after a negative one, where the running sums alone
\* would have stopped earlier
C2_Witness ==
  /\ CoverageReturned
  /\ \E k \in 2..Len(call.similarities) :
       /\ call.similarities[k] > SimilarityThreshold
       /\ call.similarities[k - 1] < 0
       /\ CumulativeBest(call.similarities) < k - 1
       /\ result = k - 1

\* the largest 0-based index whose similarity exceeds 0.3, 0 if there is none
LargestAboveThreshold(similarities) ==
  LET above == {k \in 1..Len(similarities) : similarities[k] > SimilarityThreshold}
  IN  IF above = {} THEN 0 ELSE (CHOOSE k \in above : \A j \in above : j <= k) - 1

PrefixSums(similarities) ==
  [k \in 1..Len(similarities) |-> PrefixSum(similarities, k - 1)]

\* the earliest 0-based index at which the prefix sum is the largest of all
EarliestArgmax(similarities) ==
  LET sums == PrefixSums(similarities)
  IN  (CHOOSE k \in 1..Len(sums) :
         /\ \A j \in 1..Len(sums) : sums[j] <= sums[k]
         /\ \A j \in 1..(k - 1) : sums[j] < sums[k]) - 1

LargestPrefixSum(similarities) ==
  LET sums == PrefixSums(similarities)
  IN  sums[EarliestArgmax(similarities) + 1]

\* C3 as stated: the result is max(h1, h2) with h1 the earliest index at which the
\* prefix sum attains its maximum over all indices.
C3_AsStated ==
  (CoverageReturned /\ CoveredSlideCount >= 1) =>
    result = Max(EarliestArgmax(call.similarities),
                 LargestAboveThreshold(call.similarities))

\* C3, amended: the result is max(h1, h2) with h1 the earliest index at which the
\* prefix sum attains its maximum over all indices when that maximum is strictly
\* positive, and 0 when no prefix sum is positive; h2 as stated.
C3_CoverageIsMaxOfHeuristics ==
  (CoverageReturned /\ CoveredSlideCount >= 1) =>
    result = Max(IF LargestPrefixSum(call.similarities) > 0
                 THEN EarliestArgmax(call.similarities) ELSE 0,
                 LargestAboveThreshold(call.similarities))

\* two prefix sums tie for the positive maximum and the earlier index is returned
C3_Witness ==
  /\ CoverageReturned
  /\ CoveredSlideCount >= 2
  /\ LargestPrefixSum(call.similarities) > 0
  /\ \E k \in 2..Len(call.similarities) :
       PrefixSum(call.similarities, k - 1) = LargestPrefixSum(call.similarities)
       /\ EarliestArgmax(call.similarities) < k - 1
  /\ LargestAboveThreshold(call.similarities) = 0
  /\ result = EarliestArgmax(call.similarities)

(***************************************************************************)
(* Concept filtering: claim C4.                                            *)
(***************************************************************************)
FilterReturned == pc = "done" /\ call.op = "filter_concepts"

\* C4: _filter_concepts is idempotent: filtering what it returned changes nothing,
\* stacked numbering prefixes such as "1. 2. text" included.
C4_FilterIdempotent ==
  FilterReturned => FilterConcepts(result) = result

(***************************************************************************)
(* Contradiction detection: claims C5, C6, C8, C10.                        *)
(***************************************************************************)
DetectReturned == pc = "done" /\ call.op = "detect"

HeuristicDetectReturned == DetectReturned /\ ~use_llm

HasNumbers(sentence) == ReFindAll(NumberRe, sentence) # <<>>

\* the note sentences of the call whose closest lecture sentence is related to them
\* (similarity above 0.5), as pairs <<i, j>> of 0-based indices
RelatedPairs ==
  {<<i, BestLecture(call.sim[i + 1]).best_lecture_idx>> :
     i \in {k \in 0..(Len(call.sim) - 1) :
              LET best == BestLecture(call.sim[k + 1])
              IN  best.max_similarity > RelatedSimilarity /\ best.best_lecture_idx >= 0}}

Flagged(found, position) == \E n \in 1..Len(found) : found[n].position = position

\* C5: in the heuristic path a note sentence that negates its matched reference
\* sentence (exactly one antonym pair matches, neither sentence holds a number, the
\* pair's similarity is above 0.5) is flagged by detect; the instance named is the
\* note "The tool is not mandatory." against "The tool is mandatory.".
C5_NegationFlagged ==
  HeuristicDetectReturned =>
    LET note_sentences == NoteSentences(call.notes_text)
        lecture_sentences == LectureSentences(call.slide_data)
    IN  \A p \in RelatedPairs :
          LET note == note_sentences[p[1] + 1]
              lecture == lecture_sentences[p[2] + 1]
          IN  (/\ AntonymScore(StrLower(note), StrLower(lecture), 1) = AntonymWeight
               /\ ~HasNumbers(note) /\ ~HasNumbers(lecture))
              => Flagged(result, p[1])

NoteRange5 == <<"T","h","e"," ","r","i","s","k"," ","s","c","o","r","e"," ","r","a","n","g","e","s"," ","f","r","o","m"," ","1"," ","t","o"," ","5",".">>

RefRange20 == <<"T","h","e"," ","r","i","s","k"," ","s","c","o","r","e"," ","r","a","n","g","e","s"," ","f","r","o","m"," ","1"," ","t","o"," ","2","0",".">>

\* C6: in the heuristic path, for the note "The risk score ranges from 1 to 5."
\* matched to "The risk score ranges from 1 to 20." with a re-embedded similarity
\* above 0.6, _check_contradiction returns at least 0.4 and detect flags the
\* sentence, the suggestion being the reference sentence cut to 200 characters.
C6_DifferentNumberFlagged ==
  (/\ HeuristicDetectReturned
   /\ call.notes_text = NoteRange5
   /\ LectureText(call.slide_data) = RefRange20
   /\ call.sim[1][1] > SameConceptSimilarity)
  => /\ CheckContradiction(NoteRange5, RefRange20, call.sim[1][1]) >= NumberWeight
     /\ result = <<Misconception(NoteRange5, Slice(RefRange20, 0, 200), 0)>>

\* the list detect has built so far
FoundSoFar == IF pc = "done" THEN result ELSE frame.misconceptions

\* a reply that is neither the negative marker NO nor the positive marker YES
\* followed by a bar and a correction
MalformedClassifierReply(reply) ==
  \/ reply.kind # "content"
  \/ LET res == StrStrip(reply.content)
     IN  /\ res # <<"N","O">>
         /\ ~(/\ StrStartsWith(res, <<"Y","E","S","|">>)
              /\ StrStrip(AfterFirstBar(res, 0)) # <<>>)

\* C8: when the classification capability answers with anything but the negative
\* marker or the positive marker with a correction (another shape, or an error),
\* _check_with_llm returns the verdict of the heuristic classifier for the pair.
C8_MalformedReplyFallsBack ==
  (answered.kind = "check_with_llm" /\ MalformedClassifierReply(answered.reply)) =>
    LET i == answered.i
        j == answered.best_lecture_idx
        note == NoteSentences(call.notes_text)[i + 1]
        lecture == LectureSentences(call.slide_data)[j + 1]
        verdict == HeuristicVerdict(note, lecture, call.sim[i + 1][j + 1])
    IN  /\ verdict[1] <=> Flagged(FoundSoFar, i)
        /\ \A n \in 1..Len(FoundSoFar) :
             FoundSoFar[n].position = i => FoundSoFar[n].suggestion = verdict[2]

SplitReturned == pc = "done" /\ call.op = "split_into_sentences"

\* C10: sentence splitting keeps exactly the fragments whose trimmed length is at
\* least 10 (a fragment of exactly 10 characters is kept), in their original order.
C10_KeepsTenOrMore ==
  SplitReturned =>
    result = SelectSeq(StripAll(call.fragments), LAMBDA f : Len(f) >= 10)
(***************************************************************************)
(* Concept extraction with the capability: claim C7.                       *)
(***************************************************************************)
ExtractAnswered == answered.kind = "extract_with_llm"

\* the reply is a JSON array whose items are all strings
IsStringArray(reply) ==
  /\ reply.kind = "content"
  /\ LET parsed == JsonLoads(Unwrap(reply.content))
     IN  /\ parsed.ok
         /\ parsed.v.t = "list"
         /\ \A n \in 1..Len(parsed.v.items) : parsed.v.items[n].t = "string"

\* C7: when the reply of the capability is anything other than a JSON array of
\* strings (an error, unparsable text, JSON of another shape), _extract_with_llm
\* returns exactly what _extract_from_text_fallback returns for the same text.
C7_OtherReplyFallsBack ==
  ExtractAnswered /\ ~IsStringArray(answered.reply)
    => answered.returned = ExtractFromTextFallback(answered.text)

(***************************************************************************)
(* Waiting for the capability: claim C9.                                   *)
(***************************************************************************)
\* C9: a call of the capability is bounded by a timeout: an operation that waits
\* for a reply of the capability eventually returns, whether or not the reply
\* ever comes.
C9_WaitingOperationReturns == (pc = "awaiting") ~> (pc = "done")

(***************************************************************************)
(* Missing concepts and priority concepts: claims C11-C14.                 *)
(***************************************************************************)
MissingReturned == pc = "done" /\ call.op = "find_missing_concepts"

\* C11: find_missing_concepts(X, X) returns the empty list for every concept set X,
\* and makes no call of the embedding capability.
C11_SameSetsMissNothing ==
  (MissingReturned /\ call.lecture_concepts = call.notes_concepts)
    => result = <<>> /\ answered = NoReply

C11_Witness ==
  /\ MissingReturned
  /\ call.lecture_concepts = ManyTopics
  /\ call.notes_concepts = ManyTopics
  /\ FilterConcepts(ManyTopics) # {}

NoDuplicates(list) == \A a, b \in 1..Len(list) : list[a] = list[b] => a = b

\* C12: find_missing_concepts(X, {}) returns a list without duplicates of
\* min(10, |filter(X)|) members of _filter_concepts(X), and computes no similarity.
C12_EmptyNotesReturnsCandidates ==
  (MissingReturned /\ call.notes_concepts = {}) =>
    LET filtered == FilterConcepts(call.lecture_concepts)
    IN  /\ Len(result) = Min(10, Cardinality(filtered))
        /\ NoDuplicates(result)
        /\ SeqRange(result) \subseteq filtered
        /\ answered = NoReply

C12_Witness ==
  /\ MissingReturned
  /\ call.notes_concepts = {}
  /\ Cardinality(FilterConcepts(call.lecture_concepts)) > 10
  /\ Len(result) = 10

\* the largest similarity of a candidate to the note concepts
LargestSimilarity(sim, candidate, notes) ==
  CHOOSE v \in {sim[<<candidate, n>>] : n \in notes} :
    \A n \in notes : sim[<<candidate, n>>] <= v

\* C13: with a non-empty filtered note set find_missing_concepts returns at most 10
\* entries, each in filter(reference) minus filter(notes) and with a largest
\* similarity to the note concepts strictly below 0.75, and the result is the first
\* (up to 10) such candidates in the order the candidates are iterated.
C13_ReportsUnparaphrasedCandidates ==
  MissingReturned =>
    LET notes == FilterConcepts(call.notes_concepts)
        reference == FilterConcepts(call.lecture_concepts)
        Unparaphrased(c) == LargestSimilarity(call.sim, c, notes) < 75
    IN  notes # {} =>
          /\ Len(result) <= 10
          /\ \A n \in 1..Len(result) :
               result[n] \in reference \ notes /\ Unparaphrased(result[n])
          /\ result = Slice(SelectSeq(call.missing_list, Unparaphrased), 0, 10)

C13_Witness ==
  /\ MissingReturned
  /\ FilterConcepts(call.notes_concepts) # {}
  /\ Len(call.missing_list) > 10
  /\ \E p \in DOMAIN call.sim : call.sim[p] = 75 /\ p[1] \notin SeqRange(result)
  /\ Len(result) = 10

SelectReturned == pc = "done" /\ call.op = "select_priority_concepts"

\* 3 for a digit, 2 for at least four words, 1 for one of the six words
StatedScore(concept) ==
  (IF \E n \in 1..Len(concept) : concept[n] \in DigitChars THEN 3 ELSE 0)
  + (IF Len(StrSplit(concept)) >= 4 THEN 2 ELSE 0)
  + (IF \E word \in {<<"p","r","e","d","i","c","t">>, <<"r","i","s","k">>,
                     <<"s","c","o","r","e">>, <<"u","s","e","s">>,
                     <<"b","a","s","e","d">>, <<"m","o","d","e","l">>} :
          StrContains(StrLower(concept), word)
     THEN 1 ELSE 0)

\* the pair (score, length) of a is strictly greater than that of b
StatedKeyGreater(a, b) ==
  \/ StatedScore(a) > StatedScore(b)
  \/ StatedScore(a) = StatedScore(b) /\ Len(a) > Len(b)

\* C14: select_priority_concepts(concepts, limit) with limit >= 0 returns
\* min(limit, |concepts|) distinct concepts in non-increasing order of (score,
\* length); no concept left out has a strictly greater pair than one returned; an
\* empty input returns the empty list.
C14_PriorityRanking ==
  SelectReturned =>
    /\ Len(result) = Min(call.limit, Cardinality(call.concepts))
    /\ NoDuplicates(result)
    /\ SeqRange(result) \subseteq call.concepts
    /\ \A n \in 1..(Len(result) - 1) : ~StatedKeyGreater(result[n + 1], result[n])
    /\ \A c \in call.concepts \ SeqRange(result) :
         \A n \in 1..Len(result) : ~StatedKeyGreater(c, result[n])
    /\ (call.concepts = {} => result = <<>>)

C14_Witness ==
  /\ SelectReturned
  /\ Cardinality(call.concepts) = 3
  /\ Len(result) = 2
  /\ StatedScore(result[1]) > StatedScore(result[2])
  /\ \E c \in call.concepts \ SeqRange(result) :
       StatedScore(c) = StatedScore(result[2]) /\ Len(c) = Len(result[2])


(***************************************************************************)
(* The heuristic path of detect: claims C15-C18.                           *)
(***************************************************************************)
\* the largest similarity of a note sentence's row, as the claim states it
StatedMaxSimilarity(row) == CHOOSE s \in SeqRange(row) : \A t \in SeqRange(row) : t <= s

\* the earliest lecture sentence (1-based) that attains the largest similarity
StatedClosest(row) ==
  CHOOSE j \in 1..Len(row) :
    /\ row[j] = StatedMaxSimilarity(row)
    /\ \A k \in 1..(j - 1) : row[k] # StatedMaxSimilarity(row)

\* note sentence i (1-based) of the call is to be surfaced on the heuristic path
StatedSurfaced(i) ==
  LET row == call.sim[i]
  IN  /\ row # <<>>
      /\ StatedMaxSimilarity(row) > 50
      /\ CheckContradiction(NoteSentences(call.notes_text)[i],
                            LectureSentences(call.slide_data)[StatedClosest(row)],
                            row[StatedClosest(row)]) > 30

\* C15: on the heuristic path a note sentence is in the result of detect exactly
\* when its largest similarity to a lecture sentence exceeds 0.5 and its
\* contradiction score against the earliest lecture sentence attaining that
\* similarity exceeds 0.3; with no lecture sentence nothing is surfaced.
C15_HeuristicGate ==
  HeuristicDetectReturned =>
    \A i \in 1..Len(call.sim) : Flagged(result, i - 1) <=> StatedSurfaced(i)

\* a sentence at the similarity gate and a sentence whose two closest lecture
\* sentences tie, one contradicting it and one not
C15_Witness ==
  /\ HeuristicDetectReturned
  /\ \E i \in 1..Len(call.sim) :
       /\ Len(call.sim[i]) = 2 /\ call.sim[i][1] = call.sim[i][2]
       /\ call.sim[i][1] > 50
       /\ Flagged(result, i - 1)
       /\ CheckContradiction(NoteSentences(call.notes_text)[i],
                             LectureSentences(call.slide_data)[2], call.sim[i][2]) <= 30
  /\ \E i \in 1..Len(call.sim) :
       /\ call.sim[i] # <<>> /\ StatedMaxSimilarity(call.sim[i]) = 50
       /\ ~Flagged(result, i - 1)

ContradictionReturned == pc = "done" /\ call.op = "check_contradiction"

\* the six antonym pairs of the claim, <<negative, positive>>
StatedAntonyms ==
  {<<<<"n","o","t">>, <<"i","s">>>>,
   <<<<"n","o">>, <<"y","e","s">>>>,
   <<<<"n","e","v","e","r">>, <<"a","l","w","a","y","s">>>>,
   <<<<"c","a","n","n","o","t">>, <<"c","a","n">>>>,
   <<<<"w","r","o","n","g">>, <<"c","o","r","r","e","c","t">>>>,
   <<<<"i","n","c","o","r","r","e","c","t">>, <<"c","o","r","r","e","c","t">>>>}

\* the pair is matched: the note has the negative term and the lecture sentence the
\* positive one, or the other way round
StatedMatched(pair, note, lecture) ==
  \/ StrContains(StrLower(note), pair[1]) /\ StrContains(StrLower(lecture), pair[2])
  \/ StrContains(StrLower(note), pair[2]) /\ StrContains(StrLower(lecture), pair[1])

\* p of the claim
StatedP(note, lecture) ==
  Cardinality({pair \in StatedAntonyms : StatedMatched(pair, note, lecture)})

\* c of the claim
StatedC(note, lecture, similarity) ==
  IF /\ HasNumbers(note) /\ HasNumbers(lecture)
     /\ SeqRange(ReFindAll(NumberRe, note)) \cap SeqRange(ReFindAll(NumberRe, lecture)) = {}
     /\ similarity > 60
  THEN 1 ELSE 0

StatedContradiction(note, lecture, similarity) ==
  LET total == 30 * StatedP(note, lecture) + 40 * StatedC(note, lecture, similarity)
  IN  IF total > 100 THEN 100 ELSE total

\* C16: _check_contradiction returns min(1, 0.3 p + 0.4 c), p the number of the six
\* antonym pairs matched in one direction or the other and c = 1 exactly when both
\* sentences hold numeric tokens, share none, and the re-embedded pair is more
\* similar than 0.6; the result lies in [0, 1].
C16_ContradictionScore ==
  ContradictionReturned =>
    /\ result = StatedContradiction(call.note_sentence, call.lecture_sentence,
                                    call.similarity)
    /\ result >= 0 /\ result <= 100

\* a call whose unclamped sum exceeds 1, with the numbers counted
C16_Witness ==
  /\ ContradictionReturned
  /\ StatedP(call.note_sentence, call.lecture_sentence) = 3
  /\ StatedC(call.note_sentence, call.lecture_sentence, call.similarity) = 1
  /\ result = 100

\* entry n of the returned list was judged by the heuristic: the capability is off,
\* or the last reply, the one for this sentence, was an error
HeuristicFlagged(n) ==
  \/ ~use_llm
  \/ /\ answered # NoReply /\ answered.kind = "check_with_llm"
     /\ answered.i = result[n].position
     /\ answered.reply.kind # "content"

\* the lecture sentence entry n of the returned list was matched with
MatchedLecture(n) ==
  LectureSentences(call.slide_data)[StatedClosest(call.sim[result[n].position + 1])]

IsFirst200(suggestion, sentence) ==
  /\ Len(suggestion) = (IF Len(sentence) > 200 THEN 200 ELSE Len(sentence))
  /\ \A k \in 1..Len(suggestion) : suggestion[k] = sentence[k]

\* C17: whenever the heuristic flags a sentence, with the capability off or after
\* an error of the capability, the suggestion is the first 200 characters of the
\* matched lecture sentence.
C17_SuggestionFromLecture ==
  DetectReturned =>
    \A n \in 1..Len(result) :
      HeuristicFlagged(n) => IsFirst200(result[n].suggestion, MatchedLecture(n))

\* the capability failed, the heuristic flagged the sentence, and the matched
\* lecture sentence is longer than 200 characters
C17_Witness ==
  /\ DetectReturned /\ use_llm
  /\ \E n \in 1..Len(result) :
       /\ HeuristicFlagged(n)
       /\ Len(MatchedLecture(n)) > 200
       /\ Len(result[n].suggestion) = 200

\* C18: every entry of the list detect returns carries the 0-based index of its
\* sentence among the split note sentences and that sentence as its text; the
\* positions increase strictly, so no sentence appears twice and the list is no
\* longer than the list of note sentences.
C18_PositionsOfFlaggedSentences ==
  DetectReturned =>
    LET note_sentences == NoteSentences(call.notes_text)
    IN  /\ \A n \in 1..Len(result) :
             /\ result[n].position \in 0..(Len(note_sentences) - 1)
             /\ result[n].text = note_sentences[result[n].position + 1]
        /\ \A a, b \in 1..Len(result) : a < b => result[a].position < result[b].position
        /\ Len(result) <= Len(note_sentences)

\* both sentences of a note are flagged
C18_Witness ==
  /\ DetectReturned
  /\ Len(result) = 2
  /\ result[1].position = 0 /\ result[2].position = 1

(***************************************************************************)
(* Degenerate inputs: claim C19.                                           *)
(***************************************************************************)
Returned(op) == pc = "done" /\ call.op = op

\* C19: on degenerate inputs every operation of the core returns its empty value:
\* find_covered_slides with no slides 0, extract_concepts on an empty deck and
\* extract_concepts_from_text on empty or blank text the empty set, _filter_concepts,
\* find_missing_concepts and select_priority_concepts on empty sets empty results,
\* detect with empty notes or an empty deck the empty list.
C19_DegenerateInputs ==
  /\ Returned("find_covered_slides") /\ GetSlides(call.slide_id) = <<>> => result = 0
  /\ Returned("extract_concepts") /\ call.slide_data = <<>> => result = {}
  /\ Returned("extract_concepts_from_text")
       /\ (\A k \in 1..Len(call.text) : call.text[k] \in {" ", "\n", "\t"})
       => result = {}
  /\ Returned("filter_concepts") /\ call.concepts = {} => result = {}
  /\ Returned("find_missing_concepts") /\ call.lecture_concepts = {} => result = <<>>
  /\ Returned("select_priority_concepts") /\ call.concepts = {} => result = <<>>
  /\ Returned("detect") /\ (call.notes_text = <<>> \/ call.slide_data = <<>>)
       => result = <<>>

\* blank text returned from extract_concepts_from_text with the capability on
C19_Witness ==
  /\ Returned("extract_concepts_from_text")
  /\ use_llm
  /\ call.text = <<" ", " ", " ">>
  /\ result = {}

(***************************************************************************)
(* The handlers on an unknown slide_id: claim C20.                         *)
(***************************************************************************)
\* a handler has ended a request for a slide_id the store has no slides for
UnknownIdEnded ==
  /\ pc = "done"
  /\ call.op \in {"scan_notes", "refresh_question"}
  /\ GetSlides(call.slide_id) = <<>>

\* C20: for a slide_id the store has no slides for, scan_notes and refresh_question
\* end with status 404 and the detail 'Slides not found', and with no other status,
\* having made no embedding, alignment, detection or quiz generation call.
C20_UnknownIdEndsNotFound ==
  UnknownIdEnded =>
    /\ result.status = 404
    /\ result.detail = "Slides not found"
    /\ call.made = <<>>

(***************************************************************************)
(* The running maximum of find_covered_slides: claim C22.                  *)
(***************************************************************************)
NoSlideAboveThreshold ==
  \A k \in 1..Len(call.similarities) : call.similarities[k] <= 30

NoPositivePrefixSum ==
  \A k \in 1..Len(call.similarities) : PrefixSum(call.similarities, k - 1) <= 0

\* C22: with no similarity above 0.3, find_covered_slides returns an index other
\* than 0 only when the prefix sum at that index is strictly positive; when every
\* prefix sum is at most 0 it returns 0, also when a later prefix sum is larger than
\* the first one.
C22_RunningMaximumStartsAtZero ==
  (CoverageReturned /\ CoveredSlideCount >= 1 /\ NoSlideAboveThreshold) =>
    /\ result # 0 => PrefixSum(call.similarities, result) > 0
    /\ NoPositivePrefixSum => result = 0

\* no prefix sum is positive, a later one is larger than the first, and 0 is returned
C22_Witness ==
  /\ CoverageReturned
  /\ CoveredSlideCount >= 2
  /\ NoSlideAboveThreshold
  /\ NoPositivePrefixSum
  /\ \E k \in 2..Len(call.similarities) :
       PrefixSum(call.similarities, k - 1) > PrefixSum(call.similarities, 0)
  /\ result = 0

(***************************************************************************)
(* Requests served at the same time: claim C21.                            *)
(***************************************************************************)
\* the operation of req run alone from its call, against the store st and with
\* self.use_llm = llm, the capability answering replies[n], replies[n + 1], ...
RECURSIVE RunAlone(_, _, _, _, _)
RunAlone(req, at, replies, n, llm) ==
  IF n > Len(replies) THEN at
  ELSE RunAlone(req, ResumeRequest(req, at, replies[n], llm), replies, n + 1, llm)

\* where request r would stand had it run alone with the replies it has got
Alone(r) ==
  RunAlone(call[r].req, StartRequest(call[r].req, call[r].store, call[r].use_llm),
           answered[r], 1, call[r].use_llm)

\* every request in flight stands where it would stand alone, and one that has
\* returned holds the result it would have alone
SameAsAlone ==
  \A r \in Requests :
    /\ pc[r] = "awaiting" => frame[r] = Alone(r)
    /\ pc[r] = "done" => Alone(r).at = "return" /\ result[r] = Alone(r).value

\* a step taken while request r is being served leaves the store, the fields of
\* the services and the inputs of r as they are
KeepsShared ==
  \A r \in Requests :
    (pc[r] # "idle" /\ pc'[r] # "idle") =>
      /\ store' = store /\ store = call[r].store
      /\ use_llm' = use_llm /\ use_llm = call[r].use_llm
      /\ call'[r] = call[r]

\* C21: no operation of the core changes the stored slides, its inputs or a field
\* of its service, so that requests served at the same time, with no upload in
\* between, each return what they return when served alone.
C21_OperationsKeepSharedState == []SameAsAlone /\ [][KeepsShared]_vars

\* two requests that both waited for the capability have returned: one read
\* self.use_llm again after the other had a failed capability call
C21_Witness ==
  /\ pc[1] = "done" /\ pc[2] = "done"
  /\ call[1].req.op = "extract_concepts" /\ Len(answered[1]) = 2
  /\ call[2].req.op = "detect" /\ Len(answered[2]) = 2
  /\ answered[2][1].kind = "error"
  /\ store # <<>>
=============================================================================
